---- MODULE Spec2Model ----
(***************************************************************************)
(* Model of the evaluation pipeline orchestrator                           *)
(* (evaluation/src/core/pipeline.py, class Pipeline).                      *)
(*                                                                         *)
(* One Pipeline object at a time works on one output directory and one     *)
(* run name.  The directory (the Result Store's artifacts and the          *)
(* checkpoint file) outlives the object and the process; the object's      *)
(* fields outlive a call of run(); the locals of run() live for one call.  *)
(* run() is cut into steps at every point where its effect on the          *)
(* directory or on the object can be observed, so that a process kill      *)
(* can fall between any two of them.                                       *)
(***************************************************************************)
EXTENDS Integers, Sequences, FiniteSets, TLC

\* ---------------------------------------------------------------- bounds
\* Largest number of QAPairs of a dataset handed to run().
MaxQA == 1
\* Largest post_add_wait_seconds of an adapter's config.
MaxWait == 1
\* Number of operations on the output directory: calls of run() and removals
\* of an artifact.
MaxOps == 3
\* Largest number of messages of a conversation.
MaxMsg == 2

\* ---------------------------------------------------------------- names
Stages == {"add", "search", "answer", "evaluate"}
\* run(stages=None): the argument None, kept apart from every list of names.
NoneArg == {"None"}
StageArgs == (SUBSET Stages) \cup {NoneArg}
\* The staged use of one run name: everything at once, or one late stage.
StagedArgs == {NoneArg, {"search"}, {"answer"}, {"evaluate"}}

SearchFile == "search_results.json"
AnswerFile == "answer_results.json"
EvalFile == "eval_results.json"
ReportFile == "report.txt"
Artifacts == {SearchFile, AnswerFile, EvalFile}

\* ---------------------------------------------------------------- Python values
\* A local name that has not been assigned (reading it raises UnboundLocalError).
Unbound == [k |-> "unbound", v |-> <<>>]
None == [k |-> "none", v |-> <<>>]
\* A dict key that is not there / a file that does not exist.
NoKey == [k |-> "nokey", v |-> <<>>]
Missing == [k |-> "missing", v |-> <<>>]
List(s) == [k |-> "list", v |-> s]
\* A single dict or object.
One(x) == [k |-> "one", v |-> <<x>>]
\* Python truthiness of None / a list / a dict loaded from JSON.
Truthy(x) == (x.k = "list" /\ x.v # <<>>) \/ x.k = "one"

Map(F(_), s) == [j \in 1..Len(s) |-> F(s[j])]

\* ---------------------------------------------------------------- dataset
\* A category tag of a QAPair or an entry of filter_categories: a Python str or int.
PyStr(n) == [t |-> "str", n |-> n]
PyInt(n) == [t |-> "int", n |-> n]
\* str(cat)
str(x) == PyStr(x.n)

\* metadata holds the id of the owning conversation ("" when the key is absent).
QAPair(q, cat, conv) ==
    [question |-> q, category |-> cat, metadata |-> [conversation_id |-> conv]]
Conversation(id, msgs) == [conversation_id |-> id, messages |-> msgs]
Dataset(name, convs, qas, meta) ==
    [dataset_name |-> name, conversations |-> convs, qa_pairs |-> qas, metadata |-> meta]

\* s[:n] for n >= 0
Take(s, n) == SubSeq(s, 1, IF n < Len(s) THEN n ELSE Len(s))

\* A plausible slip: the first num_questions QAPairs of the whole dataset are
\* taken, and of those the ones of the first conversation.
_apply_smoke_test_cut_first(ds, num_messages, num_questions) ==
    IF ds.conversations = <<>> THEN [ret |-> ds, arg |-> ds, same |-> TRUE]
    ELSE LET first_conv == ds.conversations[1]
             conv_id == first_conv.conversation_id
             cut == IF num_messages > 0
                    THEN [first_conv EXCEPT !.messages = Take(@, num_messages)]
                    ELSE first_conv
             head == IF num_questions > 0 THEN Take(ds.qa_pairs, num_questions)
                     ELSE ds.qa_pairs
             selected_qa_pairs ==
                 SelectSeq(head, LAMBDA qa : qa.metadata.conversation_id = conv_id)
         IN [ret |-> Dataset(ds.dataset_name \o <<"_smoke">>, <<cut>>, selected_qa_pairs,
                             [smoke_test |-> TRUE,
                              smoke_messages |-> IF num_messages > 0 THEN num_messages
                                                 ELSE Len(cut.messages),
                              smoke_questions |-> IF num_questions > 0 THEN num_questions
                                                  ELSE Len(selected_qa_pairs)]),
             arg |-> [ds EXCEPT !.conversations[1] = cut],
             same |-> FALSE]

\* _apply_smoke_test(dataset, num_messages, num_questions).  ret is the Dataset
\* returned, arg the caller's Dataset as the call leaves it (first_conv is the
\* caller's Conversation object and its messages are cut in place), same tells
\* whether the caller's own object is returned.
_apply_smoke_test(ds, num_messages, num_questions) ==
    IF ds.conversations = <<>>
    THEN [ret |-> ds, arg |-> ds, same |-> TRUE]
    ELSE LET first_conv == ds.conversations[1]
             conv_id == first_conv.conversation_id
             cut == IF num_messages > 0
                    THEN [first_conv EXCEPT !.messages = Take(@, num_messages)]
                    ELSE first_conv
             conv_qa_pairs ==
                 SelectSeq(ds.qa_pairs, LAMBDA qa : qa.metadata.conversation_id = conv_id)
             selected_qa_pairs ==
                 IF num_questions > 0 THEN Take(conv_qa_pairs, num_questions)
                 ELSE conv_qa_pairs
         IN [ret |-> Dataset(ds.dataset_name \o <<"_smoke">>, <<cut>>, selected_qa_pairs,
                             [smoke_test |-> TRUE,
                              smoke_messages |-> IF num_messages > 0 THEN num_messages
                                                 ELSE Len(cut.messages),
                              smoke_questions |-> IF num_questions > 0 THEN num_questions
                                                  ELSE Len(selected_qa_pairs)]),
             arg |-> [ds EXCEPT !.conversations[1] = cut],
             same |-> FALSE]

\* Line 127: {str(cat) for cat in self.filter_categories}
FilterSet(fc) == {str(fc[j]) : j \in 1..Len(fc)}
\* Lines 130-133: [qa for qa in dataset.qa_pairs if qa.category not in filter_set]
FilterCategories(qas, fc) ==
    SelectSeq(qas, LAMBDA qa : qa.category \notin FilterSet(fc))

\* ---------------------------------------------------------------- data model
SearchResult(q, c, r, m) ==
    [cls |-> "SearchResult", query |-> q, conversation_id |-> c,
     results |-> r, retrieval_metadata |-> m]

AnswerResult(qid, q, a, g, cat, c, ctx, m) ==
    [cls |-> "AnswerResult", question_id |-> qid, question |-> q, answer |-> a,
     golden_answer |-> g, category |-> cat, conversation_id |-> c,
     formatted_context |-> ctx, metadata |-> m]

EvaluationResult(t, c, a, d, m) ==
    [cls |-> "EvaluationResult", total_questions |-> t, correct |-> c,
     accuracy |-> a, detailed_results |-> d, metadata |-> m]

\* ---------------------------------------------------------------- serialization helpers
_search_result_to_dict(sr) ==
    [query |-> sr.query, conversation_id |-> sr.conversation_id,
     results |-> sr.results, retrieval_metadata |-> sr.retrieval_metadata]

\* A plausible slip: the result items are not carried over.
_dict_to_search_result_drop(d) ==
    SearchResult(d.query, d.conversation_id, 0, d.retrieval_metadata)

_dict_to_search_result(d) ==
    SearchResult(d.query, d.conversation_id, d.results, d.retrieval_metadata)

\* A plausible slip: the formatted context is not written out.
_answer_result_to_dict_short(ar) ==
    [question_id |-> ar.question_id, question |-> ar.question, answer |-> ar.answer,
     golden_answer |-> ar.golden_answer, category |-> ar.category,
     conversation_id |-> ar.conversation_id,
     formatted_context |-> 0, metadata |-> ar.metadata]

_answer_result_to_dict(ar) ==
    [question_id |-> ar.question_id, question |-> ar.question, answer |-> ar.answer,
     golden_answer |-> ar.golden_answer, category |-> ar.category,
     conversation_id |-> ar.conversation_id,
     formatted_context |-> ar.formatted_context, metadata |-> ar.metadata]

_dict_to_answer_result(d) ==
    AnswerResult(d.question_id, d.question, d.answer, d.golden_answer, d.category,
                 d.conversation_id, d.formatted_context, d.metadata)

_eval_result_to_dict(er) ==
    [total_questions |-> er.total_questions, correct |-> er.correct,
     accuracy |-> er.accuracy, detailed_results |-> er.detailed_results,
     metadata |-> er.metadata]

\* [self._search_result_to_dict(sr) for sr in search_results]
SearchDicts(objs) == List(Map(_search_result_to_dict, objs.v))
\* [self._dict_to_search_result(d) for d in search_data]
SearchObjs(dicts) == List(Map(_dict_to_search_result, dicts.v))
AnswerDicts(objs) == List(Map(_answer_result_to_dict, objs.v))
AnswerObjs(dicts) == List(Map(_dict_to_answer_result, dicts.v))

\* ---------------------------------------------------------------- collaborators
\* The datasets handed to run(): one conversation; no QAPairs or MaxQA of them,
\* QAPair j with the category tag "j".
QAChoices == {[j \in 1..n |-> QAPair(j, PyStr(j), "c1")] : n \in {0, MaxQA}}
Datasets ==
    {Dataset(<<"ds">>, <<Conversation("c1", [j \in 1..MaxMsg |-> j])>>, qa,
             [smoke_test |-> FALSE, smoke_messages |-> 0, smoke_questions |-> 0]) :
        qa \in QAChoices}
\* Pipeline(filter_categories=...): no filter, or category 1 filtered out.
NoFilter == {<<>>}
FilterChoices == {<<>>, <<PyInt(1)>>}

\* Search executor: one SearchResult per QAPair; h stands for what the backend
\* returned to this call (no two calls are taken to return the same).
run_search_stage(qa, h) ==
    List([j \in 1..Len(qa) |->
            SearchResult(qa[j].question, qa[j].metadata.conversation_id, h, "meta")])

\* Answer executor: one AnswerResult per QAPair, built on the SearchResult at
\* the same position.
run_answer_stage(qa, sr) ==
    List([j \in 1..Len(qa) |->
            LET ctx == IF j <= Len(sr.v) THEN sr.v[j].results ELSE 0
            IN AnswerResult(j, qa[j].question, ctx, 1, qa[j].category,
                            qa[j].metadata.conversation_id, ctx, "meta")])

\* Evaluator: accuracy is correct/total in percent, 0 for no questions.
run_evaluate_stage(ar) ==
    LET t == Len(ar.v)
        c == Cardinality({j \in 1..t : ar.v[j].answer = ar.v[j].golden_answer})
    IN One(EvaluationResult(t, c, IF t = 0 THEN 0 ELSE (c * 100) \div t, "details", "meta"))

\* ---------------------------------------------------------------- checkpoint manager
NoCkpt ==
    [exists |-> FALSE, completed_stages |-> {}, search_results |-> NoKey,
     answer_results |-> NoKey, eval_results |-> NoKey]

\* save_checkpoint(completed_stages, search_results=None, answer_results=None,
\* eval_results=None): a full replace; an argument left None is not stored.
save_checkpoint(cs, sr, ar, er) ==
    [exists |-> TRUE, completed_stages |-> cs,
     search_results |-> IF sr = None THEN NoKey ELSE sr,
     answer_results |-> IF ar = None THEN NoKey ELSE ar,
     eval_results |-> IF er = None THEN NoKey ELSE er]

\* ---------------------------------------------------------------- state
VARIABLES
    m_self,               \* the MemuAdapter object: its configuration
    m_pc,                 \* where the adapter is
    m_add,                \* add(): conversations, loop position, task_ids
    m_submit,             \* _add_single_user(): attempt, task_id, what it did
    m_wait,               \* _wait_for_all_tasks(): pending_tasks, the round, the clock
    m_server,             \* the Memu service: its memorize tasks, by task id
    m_search,             \* search(): the perspective and the user ids queried
    ckpt,                 \* the checkpoint file of the run name
    files,                \* the output directory: file name -> content
    written,              \* artifacts that have ever been written
    pc,                   \* where the process is
    ops,                  \* operations on the output directory so far
    dataset,              \* the caller's Dataset object, handed to every run()
    loaded,               \* the Dataset as the caller loaded it
    filter_categories,    \* Pipeline.filter_categories
    conversations,        \* run(): dataset.conversations as the stages see them
    aliased,              \* run(): the local name dataset is the caller's object
    events,               \* what the current run has done so far, in order
    rebuilt_with,         \* the conversations handed to build_lazy_index
    arg,                  \* the input of a helper called on its own
    ret,                  \* what that call returned
    use_checkpoint,       \* Pipeline.use_checkpoint (Pipeline.checkpoint is set with it)
    wait_seconds,         \* run(): wait_seconds
    completed_stages,     \* Pipeline.completed_stages
    stages,               \* run(): stages
    qa_pairs,             \* run(): dataset.qa_pairs as the stages see them
    search_results_data,  \* run(): search_results_data
    answer_results_data,  \* run(): answer_results_data
    results,              \* run(): results
    add_just_completed,   \* run(): add_just_completed
    search_results,       \* run(): search_results
    answer_results,       \* run(): answer_results
    eval_result,          \* run(): eval_result
    report,               \* what the current run wrote to report.txt
    wait_i,               \* run(): seconds of the post-add wait still to sleep
    outcome,              \* how the last call of run() ended
    invoked,              \* executor calls of the current run, per stage
    exec_returned,        \* stages whose executor returned in the current run
    completed_at_load,    \* completed_stages right after the checkpoint load
    ckpt_loaded,          \* whether the load found a checkpoint
    wait_state,           \* the post-add wait of the current run
    answer_input,         \* the search results handed to the Answer executor
    snap,                 \* completed_stages and checkpoint at the last executor call
    last,                 \* what the last finished run left, for the next one
    prev                  \* "last" as it was when the current run started

disk == <<ckpt, files, written>>
conf == <<use_checkpoint, dataset, ops>>
ctl == <<stages, qa_pairs, add_just_completed, wait_seconds, wait_i>>
data == <<search_results_data, answer_results_data, results, search_results,
          answer_results, eval_result>>
hist == <<invoked, exec_returned, completed_at_load, ckpt_loaded, wait_state,
          answer_input, snap>>
kept == <<prev, report>>
runs == <<last, prev, report>>

fixed == <<loaded, arg, ret, m_self, m_pc, m_add, m_submit, m_wait, m_server,
          m_search>>

vars == <<ckpt, files, written, pc, ops, dataset, use_checkpoint,
          loaded, filter_categories, conversations, aliased, events, rebuilt_with,
          arg, ret, m_self, m_pc, m_add, m_submit, m_wait, m_server, m_search,
          wait_seconds, completed_stages,
          stages, qa_pairs, search_results_data, answer_results_data, results,
          add_just_completed, search_results, answer_results, eval_result, report,
          wait_i, outcome, invoked, exec_returned, completed_at_load, ckpt_loaded,
          wait_state, answer_input, snap, last, prev>>

NoResults ==
    [index |-> "unset", search_results |-> NoKey, answer_results |-> NoKey,
     eval_result |-> NoKey]
NoSnap == [completed_stages |-> {}, ckpt |-> NoCkpt]
NoArg == [op |-> "none"]
NoLast == [set |-> FALSE, use_checkpoint |-> FALSE, search_results |-> NoKey]

\* No call of run() is on the stack.
Idle == pc \in {"noobj", "ready", "returned", "raised"}
Errors ==
    {"FileNotFoundError:search", "FileNotFoundError:answer",
     "UnboundLocalError:answer", "UnboundLocalError:evaluate",
     "UnboundLocalError:checkpoint", "TypeError:checkpoint",
     "StageError:add", "StageError:search", "StageError:answer",
     "StageError:evaluate", "IndexError:smoke"}

\* The locals of run() and the per-run history before a call.
FreshLocals ==
    /\ stages = {}
    /\ qa_pairs = <<>>
    /\ conversations = <<>>
    /\ aliased = TRUE
    /\ events = <<>>
    /\ rebuilt_with = Unbound
    /\ search_results_data = None
    /\ answer_results_data = None
    /\ results = NoResults
    /\ add_just_completed = FALSE
    /\ search_results = Unbound
    /\ answer_results = Unbound
    /\ eval_result = Unbound
    /\ report = Missing
    /\ wait_seconds = 0
    /\ wait_i = 0
    /\ invoked = [s \in Stages |-> 0]
    /\ exec_returned = {}
    /\ completed_at_load = {}
    /\ ckpt_loaded = FALSE
    /\ wait_state = "none"
    /\ answer_input = Unbound
    /\ snap = NoSnap
    /\ prev = NoLast

\* ---------------------------------------------------------------- Memu adapter at rest
memu == <<m_self, m_pc, m_add, m_submit, m_wait, m_server, m_search>>

\* task_id = None.
NoTask == 0
NoAdapter == [max_retries |-> 0, task_check_interval |-> 0, task_timeout |-> 0]
NoAdd ==
    [conversations |-> <<>>, i |-> 0, perspective |-> "none", dual |-> <<>>,
     task_id_a |-> NoTask, conversation_ids |-> <<>>, task_ids |-> <<>>]
NoSubmit ==
    [user_id |-> <<>>, attempt |-> 0, task_id |-> NoTask, tried |-> <<>>,
     slept |-> <<>>, raised |-> -1]
NoWait ==
    [called |-> FALSE, pending_tasks |-> {}, to_poll |-> {}, completed_in_round |-> {},
     failed_in_round |-> {}, unchecked |-> {}, elapsed |-> 0, returned |-> FALSE,
     ret |-> FALSE]
NoSearch == [called |-> FALSE]

\* No MemuAdapter object yet.
MemuIdle ==
    /\ m_self = NoAdapter
    /\ m_pc = "noadapter"
    /\ m_add = NoAdd
    /\ m_submit = NoSubmit
    /\ m_wait = NoWait
    /\ m_server = <<>>
    /\ m_search = NoSearch

\* An empty output directory, a loaded dataset of D, no Pipeline object and no
\* adapter yet.
EmptyWith(D) ==
    /\ MemuIdle
    /\ ckpt = NoCkpt
    /\ files = [f \in Artifacts |-> Missing]
    /\ written = {}
    /\ pc = "noobj"
    /\ ops = 0
    /\ dataset \in D
    /\ loaded = dataset
    /\ filter_categories = <<>>
    /\ use_checkpoint = FALSE
    /\ completed_stages = {}
    /\ outcome = "none"
    /\ last = NoLast
    /\ FreshLocals

Empty == EmptyWith(Datasets)

Init ==
    /\ Empty
    /\ arg = NoArg
    /\ ret = NoArg

\* The same, as the next state.
ResetData ==
    /\ events' = <<>>
    /\ rebuilt_with' = Unbound
    /\ search_results_data' = None
    /\ answer_results_data' = None
    /\ results' = NoResults
    /\ add_just_completed' = FALSE
    /\ search_results' = Unbound
    /\ answer_results' = Unbound
    /\ eval_result' = Unbound
    /\ report' = Missing
    /\ wait_seconds' = 0
    /\ wait_i' = 0
    /\ invoked' = [s \in Stages |-> 0]
    /\ exec_returned' = {}
    /\ completed_at_load' = {}
    /\ ckpt_loaded' = FALSE
    /\ wait_state' = "none"
    /\ answer_input' = Unbound
    /\ snap' = NoSnap

ResetLocals ==
    /\ stages' = {}
    /\ qa_pairs' = <<>>
    /\ conversations' = <<>>
    /\ aliased' = TRUE
    /\ ResetData

\* What every step of run() after the pre-processing does besides its own
\* effect: it adds es to the record of the run.
Step(es) ==
    /\ events' = events \o es
    /\ UNCHANGED <<conversations, aliased, rebuilt_with, filter_categories, fixed>>

\* Lines 186 and 191: adapter.build_lazy_index(dataset.conversations, ...).
StepRebuild ==
    /\ events' = events \o <<"rebuild", "gate:add">>
    /\ rebuilt_with' = List(conversations)
    /\ UNCHANGED <<conversations, aliased, filter_categories, fixed>>

\* ---------------------------------------------------------------- the object
\* Pipeline(adapter, ..., output_dir, run_name, use_checkpoint): a new object on
\* the same output directory and run name.
NewPipeline(filters) ==
    /\ Idle
    /\ ops < MaxOps
    /\ \E uc \in BOOLEAN : use_checkpoint' = uc
    /\ \E fc \in filters : filter_categories' = fc
    /\ completed_stages' = {}
    /\ pc' = "ready"
    /\ outcome' = "none"
    /\ ResetLocals
    /\ prev' = NoLast
    /\ UNCHANGED <<disk, last, dataset, ops, fixed>>

\* The process is killed: the object and the locals are gone, the directory stays.
Kill ==
    /\ pc # "noobj"
    /\ pc' = "noobj"
    /\ use_checkpoint' = FALSE
    /\ completed_stages' = {}
    /\ outcome' = "none"
    /\ ResetLocals
    /\ prev' = NoLast
    /\ last' = IF Idle THEN last ELSE NoLast
    /\ filter_categories' = <<>>
    /\ dataset' = loaded
    /\ UNCHANGED <<disk, ops, fixed>>

\* Between two runs somebody removes an artifact from the output directory.
RemoveArtifact ==
    /\ Idle
    /\ ops < MaxOps
    /\ ops' = ops + 1
    /\ \E f \in Artifacts :
        /\ files[f] # Missing
        /\ files' = [files EXCEPT ![f] = Missing]
    /\ pc' = IF pc = "noobj" THEN "noobj" ELSE "ready"
    /\ outcome' = "none"
    /\ ResetLocals
    /\ prev' = NoLast
    /\ last' = NoLast
    /\ UNCHANGED <<ckpt, written, use_checkpoint, dataset, completed_stages,
                   filter_categories, fixed>>

\* ---------------------------------------------------------------- run(): entry
\* What a finished run leaves for the next one to be compared with.
Left(ok) ==
    IF ok /\ stages = {"add", "search"}
    THEN [set |-> TRUE, use_checkpoint |-> use_checkpoint,
          search_results |-> results.search_results]
    ELSE NoLast

StartRun(requests) ==
    /\ pc \in {"ready", "returned", "raised"}
    /\ ResetData
    /\ ops < MaxOps
    /\ ops' = ops + 1
    /\ \E st \in requests : stages' = st
    /\ qa_pairs' = dataset.qa_pairs
    /\ conversations' = dataset.conversations
    /\ aliased' = TRUE
    /\ prev' = last
    /\ pc' = "smoke"
    /\ outcome' = "running"
    /\ UNCHANGED <<disk, use_checkpoint, dataset, completed_stages, last,
                   filter_categories, fixed>>

\* A run ends by an exception that nothing catches.
Raise(kind) ==
    /\ pc' = "raised"
    /\ outcome' = kind
    /\ last' = NoLast

\* ---------------------------------------------------------------- run(): pre-processing
\* Lines 115-120: smoke_test is set; the dataset is cut to its first conversation.
\* Line 118 reads dataset.conversations[0] of the result.
SmokeTest ==
    /\ pc = "smoke"
    /\ \E smoke_messages \in 0..MaxMsg, smoke_questions \in 0..MaxQA :
         LET r == _apply_smoke_test(dataset, smoke_messages, smoke_questions)
         IN /\ dataset' = r.arg
            /\ conversations' = r.ret.conversations
            /\ qa_pairs' = r.ret.qa_pairs
            /\ aliased' = r.same
            /\ events' = events \o <<"smoke">>
            /\ IF r.ret.conversations = <<>>
               THEN Raise("IndexError:smoke")
               ELSE /\ pc' = "filter"
                    /\ UNCHANGED <<outcome, last>>
    /\ UNCHANGED <<disk, use_checkpoint, ops, completed_stages, stages,
                   add_just_completed, wait_seconds, wait_i, data, hist, kept,
                   rebuilt_with, filter_categories, fixed>>

\* Line 115: smoke_test is not set.
SmokeOff ==
    /\ pc = "smoke"
    /\ pc' = "filter"
    /\ Step(<<>>)
    /\ UNCHANGED <<disk, conf, completed_stages, ctl, data, outcome, hist, runs>>

\* A plausible slip: the filter is left out when the run resumes from a checkpoint.
CategoryFilter_FreshOnly ==
    /\ pc = "filter"
    /\ filter_categories # <<>>
    /\ IF use_checkpoint /\ ckpt.exists
       THEN UNCHANGED <<qa_pairs, dataset, events>>
       ELSE /\ qa_pairs' = FilterCategories(qa_pairs, filter_categories)
            /\ dataset' = IF aliased THEN [dataset EXCEPT !.qa_pairs = qa_pairs']
                          ELSE dataset
            /\ events' = events \o <<"filter">>
    /\ pc' = "load"
    /\ UNCHANGED <<disk, use_checkpoint, ops, completed_stages, stages,
                   add_just_completed, wait_seconds, wait_i, data, outcome, hist, runs,
                   conversations, aliased, rebuilt_with, filter_categories, fixed>>

\* Lines 123-142: filter_categories is not empty; the QAPairs of the filtered
\* categories are taken out of dataset.qa_pairs.
CategoryFilter ==
    /\ pc = "filter"
    /\ filter_categories # <<>>
    /\ qa_pairs' = FilterCategories(qa_pairs, filter_categories)
    /\ dataset' = IF aliased THEN [dataset EXCEPT !.qa_pairs = qa_pairs'] ELSE dataset
    /\ events' = events \o <<"filter">>
    /\ pc' = "load"
    /\ UNCHANGED <<disk, use_checkpoint, ops, completed_stages, stages,
                   add_just_completed, wait_seconds, wait_i, data, outcome, hist, runs,
                   conversations, aliased, rebuilt_with, filter_categories, fixed>>

\* Line 125: filter_categories is empty.
CategoryFilterOff ==
    /\ pc = "filter"
    /\ filter_categories = <<>>
    /\ pc' = "load"
    /\ Step(<<>>)
    /\ UNCHANGED <<disk, conf, completed_stages, ctl, data, outcome, hist, runs>>

\* Lines 144-162: the checkpoint load, the default stages, results = {}.
Load ==
    /\ Step(<<"load">>)
    /\ pc = "load"
    /\ IF use_checkpoint /\ ckpt.exists
       THEN /\ completed_stages' = ckpt.completed_stages
            /\ search_results_data' =
                 IF ckpt.search_results # NoKey THEN ckpt.search_results ELSE None
            /\ answer_results_data' =
                 IF ckpt.answer_results # NoKey THEN ckpt.answer_results ELSE None
            /\ ckpt_loaded' = TRUE
       ELSE /\ UNCHANGED <<completed_stages, search_results_data, answer_results_data>>
            /\ ckpt_loaded' = FALSE
    /\ stages' = IF stages = NoneArg THEN Stages ELSE stages
    /\ results' = NoResults
    /\ completed_at_load' = completed_stages'
    /\ pc' = "add_gate"
    /\ UNCHANGED <<disk, conf, qa_pairs, add_just_completed, wait_seconds, wait_i,
                   search_results,
                   answer_results, eval_result, outcome, invoked, exec_returned,
                   wait_state, answer_input, snap, runs>>

\* ---------------------------------------------------------------- Stage 1: Add
\* A checkpoint's stored value as a save_checkpoint argument.
AsArg(x) == IF x = NoKey THEN None ELSE x

\* adapter.build_lazy_index(...): None for online APIs, a handle for local systems.
Indexes == {"none", "handle"}

\* Line 167.
AddShouldRun == "add" \in stages /\ "add" \notin completed_stages

\* Lines 167-178: the Add executor is called.
AddCall ==
    /\ Step(<<"call:add">>)
    /\ pc = "add_gate"
    /\ AddShouldRun
    /\ invoked' = [invoked EXCEPT !["add"] = @ + 1]
    /\ snap' = [completed_stages |-> completed_stages, ckpt |-> ckpt]
    /\ pc' = "add_exec"
    /\ UNCHANGED <<disk, conf, completed_stages, ctl, data, outcome, exec_returned,
                   completed_at_load, ckpt_loaded, wait_state, answer_input, runs>>

\* run_add_stage returns (lines 179-180).  The executor is given
\* completed_stages and the checkpoint manager: it marks "add" and rewrites the
\* checkpoint with what the checkpoint already held.
AddReturn ==
    /\ Step(<<"gate:add">>)
    /\ pc = "add_exec"
    /\ completed_stages' = completed_stages \cup {"add"}
    /\ ckpt' = IF use_checkpoint
               THEN save_checkpoint(completed_stages', AsArg(ckpt.search_results),
                                    AsArg(ckpt.answer_results), AsArg(ckpt.eval_results))
               ELSE ckpt
    /\ \E idx \in Indexes : results' = [results EXCEPT !.index = idx]
    /\ add_just_completed' = TRUE
    /\ exec_returned' = exec_returned \cup {"add"}
    /\ pc' = "wait_gate"
    /\ UNCHANGED <<files, written, conf, stages, qa_pairs, wait_seconds, wait_i,
                   search_results_data, answer_results_data, search_results,
                   answer_results, eval_result, outcome, invoked, completed_at_load,
                   ckpt_loaded, wait_state, answer_input, snap, runs>>

\* The Add executor raises.
AddRaise ==
    /\ Step(<<>>)
    /\ pc = "add_exec"
    /\ Raise("StageError:add")
    /\ UNCHANGED <<disk, conf, completed_stages, ctl, data, hist, kept>>

\* Lines 182-187: Add is completed, the index is rebuilt.
AddSkipCompleted ==
    /\ StepRebuild
    /\ pc = "add_gate"
    /\ ~AddShouldRun
    /\ "add" \in completed_stages
    /\ \E idx \in Indexes : results' = [results EXCEPT !.index = idx]
    /\ pc' = "wait_gate"
    /\ UNCHANGED <<disk, conf, completed_stages, ctl, search_results_data,
                   answer_results_data, search_results, answer_results, eval_result,
                   outcome, hist, runs>>

\* A plausible slip: nothing is rebuilt when Add is not requested.
AddSkipNotRequested_NoRebuild ==
    /\ Step(<<"gate:add">>)
    /\ pc = "add_gate"
    /\ ~AddShouldRun
    /\ "add" \notin completed_stages
    /\ pc' = "wait_gate"
    /\ UNCHANGED <<disk, conf, completed_stages, ctl, data, outcome, hist, runs>>

\* Lines 188-194: Add is not requested, the index is rebuilt.
AddSkipNotRequested ==
    /\ StepRebuild
    /\ pc = "add_gate"
    /\ ~AddShouldRun
    /\ "add" \notin completed_stages
    /\ \E idx \in Indexes : results' = [results EXCEPT !.index = idx]
    /\ pc' = "wait_gate"
    /\ UNCHANGED <<disk, conf, completed_stages, ctl, search_results_data,
                   answer_results_data, search_results, answer_results, eval_result,
                   outcome, hist, runs>>

\* ---------------------------------------------------------------- post-add wait
\* A plausible slip: the wait does not ask whether Add ran.
AddJustCompleted_Always == TRUE

\* Line 198.
AddJustCompleted == add_just_completed

\* Line 200.
ShouldWait == wait_seconds > 0 /\ "search" \in stages

\* Lines 198-199: after Add ran, the adapter's post_add_wait_seconds is read.
WaitConfig ==
    /\ Step(<<>>)
    /\ pc = "wait_gate"
    /\ AddJustCompleted
    /\ \E w \in 0..MaxWait : wait_seconds' = w
    /\ pc' = "wait_check"
    /\ UNCHANGED <<disk, conf, completed_stages, stages, qa_pairs, add_just_completed,
                   wait_i, data, outcome, hist, runs>>

\* Line 198 with the Search gate left out: the run goes on at the Answer gate.
WaitSkip_ToAnswer ==
    /\ Step(<<>>)
    /\ pc = "wait_gate"
    /\ ~AddJustCompleted
    /\ pc' = "answer_gate"
    /\ UNCHANGED <<disk, conf, completed_stages, ctl, data, outcome, hist, runs>>

\* Line 198: Add did not run in this call.
WaitSkip ==
    /\ Step(<<>>)
    /\ pc = "wait_gate"
    /\ ~AddJustCompleted
    /\ pc' = "search_gate"
    /\ UNCHANGED <<disk, conf, completed_stages, ctl, data, outcome, hist, runs>>

\* Lines 200-219.
WaitGate ==
    /\ Step(<<>>)
    /\ pc = "wait_check"
    /\ IF ShouldWait
       THEN /\ wait_i' = wait_seconds
            /\ wait_state' = "started"
            /\ pc' = "waiting"
       ELSE /\ UNCHANGED <<wait_i, wait_state>>
            /\ pc' = "search_gate"
    /\ UNCHANGED <<disk, conf, completed_stages, stages, qa_pairs, add_just_completed,
                   wait_seconds, data, outcome, invoked, exec_returned,
                   completed_at_load, ckpt_loaded, answer_input, snap, runs>>

\* Lines 220-222: one second of the countdown.
Sleep ==
    /\ Step(<<>>)
    /\ pc = "waiting"
    /\ wait_i > 0
    /\ wait_i' = wait_i - 1
    /\ UNCHANGED <<disk, pc, conf, completed_stages, stages, qa_pairs,
                   add_just_completed, wait_seconds, data, outcome, hist, runs>>

\* Lines 224-225: the countdown is over.
WaitDone ==
    /\ Step(<<>>)
    /\ pc = "waiting"
    /\ wait_i = 0
    /\ wait_state' = "finished"
    /\ pc' = "search_gate"
    /\ UNCHANGED <<disk, conf, completed_stages, ctl, data, outcome, invoked,
                   exec_returned, completed_at_load, ckpt_loaded, answer_input, snap,
                   runs>>

\* ---------------------------------------------------------------- Stage 2: Search
\* A plausible slip: the gate does not look at completed_stages.
SearchShouldRun_IgnoreCompleted == "search" \in stages

\* Line 228.
SearchShouldRun == "search" \in stages /\ "search" \notin completed_stages

\* Line 266, as written.
SearchNeeded == "answer" \in stages \/ "eval" \in stages

\* A plausible slip: the stage is marked before its executor has run.
SearchCall_MarkFirst ==
    /\ Step(<<"call:search">>)
    /\ pc = "search_gate"
    /\ SearchShouldRun
    /\ invoked' = [invoked EXCEPT !["search"] = @ + 1]
    /\ snap' = [completed_stages |-> completed_stages, ckpt |-> ckpt]
    /\ completed_stages' = completed_stages \cup {"search"}
    /\ pc' = "search_exec"
    /\ UNCHANGED <<disk, conf, ctl, data, outcome, exec_returned, completed_at_load,
                   ckpt_loaded, wait_state, answer_input, runs>>

\* Lines 228-238: the Search executor is called.
SearchCall ==
    /\ Step(<<"call:search">>)
    /\ pc = "search_gate"
    /\ SearchShouldRun
    /\ invoked' = [invoked EXCEPT !["search"] = @ + 1]
    /\ snap' = [completed_stages |-> completed_stages, ckpt |-> ckpt]
    /\ pc' = "search_exec"
    /\ UNCHANGED <<disk, conf, completed_stages, ctl, data, outcome, exec_returned,
                   completed_at_load, ckpt_loaded, wait_state, answer_input, runs>>

\* run_search_stage returns.
SearchReturn ==
    /\ Step(<<>>)
    /\ pc = "search_exec"
    /\ search_results' = run_search_stage(qa_pairs, ops)
    /\ exec_returned' = exec_returned \cup {"search"}
    /\ pc' = "search_save"
    /\ UNCHANGED <<disk, conf, completed_stages, ctl, search_results_data,
                   answer_results_data, results, answer_results, eval_result, outcome,
                   invoked, completed_at_load, ckpt_loaded, wait_state, answer_input,
                   snap, runs>>

\* run_search_stage raises.
SearchRaise ==
    /\ Step(<<>>)
    /\ pc = "search_exec"
    /\ Raise("StageError:search")
    /\ UNCHANGED <<disk, conf, completed_stages, ctl, data, hist, kept>>

\* A plausible slip: the checkpoint is rewritten before the artifact is written.
SearchSave_CkptFirst ==
    /\ Step(<<>>)
    /\ pc = "search_save"
    /\ completed_stages' = completed_stages \cup {"search"}
    /\ ckpt' = IF use_checkpoint
               THEN save_checkpoint(completed_stages', SearchDicts(search_results),
                                    None, None)
               ELSE ckpt
    /\ results' = [results EXCEPT !.search_results = search_results]
    /\ pc' = "search_ckpt"
    /\ UNCHANGED <<files, written, conf, ctl, search_results_data,
                   answer_results_data, search_results, answer_results, eval_result,
                   outcome, hist, runs>>

\* A plausible slip: the set of completed stages is started anew after Search.
SearchSave_Replace ==
    /\ Step(<<>>)
    /\ pc = "search_save"
    /\ files' = [files EXCEPT ![SearchFile] = SearchDicts(search_results)]
    /\ written' = written \cup {SearchFile}
    /\ results' = [results EXCEPT !.search_results = search_results]
    /\ completed_stages' = {"search"}
    /\ pc' = "search_ckpt"
    /\ UNCHANGED <<ckpt, conf, ctl, search_results_data, answer_results_data,
                   search_results, answer_results, eval_result, outcome, hist, runs>>

\* Lines 240-248: search_results.json is written, the stage is marked.
SearchSave ==
    /\ Step(<<>>)
    /\ pc = "search_save"
    /\ files' = [files EXCEPT ![SearchFile] = SearchDicts(search_results)]
    /\ written' = written \cup {SearchFile}
    /\ results' = [results EXCEPT !.search_results = search_results]
    /\ completed_stages' = completed_stages \cup {"search"}
    /\ pc' = "search_ckpt"
    /\ UNCHANGED <<ckpt, conf, ctl, search_results_data, answer_results_data,
                   search_results, answer_results, eval_result, outcome, hist, runs>>

\* Lines 249-254: the checkpoint is rewritten.
SearchCkpt ==
    /\ Step(<<"gate:search">>)
    /\ pc = "search_ckpt"
    /\ IF use_checkpoint
       THEN /\ search_results_data' = SearchDicts(search_results)
            /\ ckpt' = save_checkpoint(completed_stages, search_results_data', None, None)
       ELSE UNCHANGED <<search_results_data, ckpt>>
    /\ pc' = "answer_gate"
    /\ UNCHANGED <<files, written, conf, completed_stages, ctl, answer_results_data,
                   results, search_results, answer_results, eval_result, outcome, hist,
                   runs>>

\* Lines 255-265: Search is completed; its results come from the checkpoint
\* payload, else from the file, else they stay unassigned.
SearchReload ==
    /\ Step(<<"gate:search">>)
    /\ pc = "search_gate"
    /\ ~SearchShouldRun
    /\ "search" \in completed_stages
    /\ IF Truthy(search_results_data)
       THEN /\ search_results' = SearchObjs(search_results_data)
            /\ results' = [results EXCEPT !.search_results = search_results']
       ELSE IF files[SearchFile] # Missing
       THEN /\ search_results' = SearchObjs(files[SearchFile])
            /\ results' = [results EXCEPT !.search_results = search_results']
       ELSE UNCHANGED <<search_results, results>>
    /\ pc' = "answer_gate"
    /\ UNCHANGED <<disk, conf, completed_stages, ctl, search_results_data,
                   answer_results_data, answer_results, eval_result, outcome, hist,
                   runs>>

\* Lines 266-272: Search is not to run and a later stage needs its results.
SearchLoadNeeded ==
    /\ Step(<<"gate:search">>)
    /\ pc = "search_gate"
    /\ ~SearchShouldRun
    /\ "search" \notin completed_stages
    /\ SearchNeeded
    /\ files[SearchFile] # Missing
    /\ search_results' = SearchObjs(files[SearchFile])
    /\ results' = [results EXCEPT !.search_results = search_results']
    /\ pc' = "answer_gate"
    /\ UNCHANGED <<disk, conf, completed_stages, ctl, search_results_data,
                   answer_results_data, answer_results, eval_result, outcome, hist,
                   runs>>

\* Lines 273-274: ... and there is no file.
SearchMissing ==
    /\ Step(<<>>)
    /\ pc = "search_gate"
    /\ ~SearchShouldRun
    /\ "search" \notin completed_stages
    /\ SearchNeeded
    /\ files[SearchFile] = Missing
    /\ Raise("FileNotFoundError:search")
    /\ UNCHANGED <<disk, conf, completed_stages, ctl, data, hist, kept>>

\* Lines 275-277: nobody needs search results.
SearchNotNeeded ==
    /\ Step(<<"gate:search">>)
    /\ pc = "search_gate"
    /\ ~SearchShouldRun
    /\ "search" \notin completed_stages
    /\ ~SearchNeeded
    /\ search_results' = None
    /\ pc' = "answer_gate"
    /\ UNCHANGED <<disk, conf, completed_stages, ctl, search_results_data,
                   answer_results_data, results, answer_results, eval_result, outcome,
                   hist, runs>>

\* ---------------------------------------------------------------- Stage 3: Answer
\* Line 280.
AnswerShouldRun == "answer" \in stages /\ "answer" \notin completed_stages

\* Lines 280-289: the Answer executor is called with search_results.
AnswerCall ==
    /\ Step(<<"call:answer">>)
    /\ pc = "answer_gate"
    /\ AnswerShouldRun
    /\ search_results # Unbound
    /\ invoked' = [invoked EXCEPT !["answer"] = @ + 1]
    /\ answer_input' = search_results
    /\ snap' = [completed_stages |-> completed_stages, ckpt |-> ckpt]
    /\ pc' = "answer_exec"
    /\ UNCHANGED <<disk, conf, completed_stages, ctl, data, outcome, exec_returned,
                   completed_at_load, ckpt_loaded, wait_state, runs>>

\* Line 286 reads search_results, which no branch of the Search gate assigned.
AnswerCallUnbound ==
    /\ Step(<<>>)
    /\ pc = "answer_gate"
    /\ AnswerShouldRun
    /\ search_results = Unbound
    /\ Raise("UnboundLocalError:answer")
    /\ UNCHANGED <<disk, conf, completed_stages, ctl, data, hist, kept>>

\* run_answer_stage returns.
AnswerReturn ==
    /\ Step(<<>>)
    /\ pc = "answer_exec"
    /\ answer_results' = run_answer_stage(qa_pairs, search_results)
    /\ exec_returned' = exec_returned \cup {"answer"}
    /\ pc' = "answer_save"
    /\ UNCHANGED <<disk, conf, completed_stages, ctl, search_results_data,
                   answer_results_data, results, search_results, eval_result, outcome,
                   invoked, completed_at_load, ckpt_loaded, wait_state, answer_input,
                   snap, runs>>

\* run_answer_stage raises.
AnswerRaise ==
    /\ Step(<<>>)
    /\ pc = "answer_exec"
    /\ Raise("StageError:answer")
    /\ UNCHANGED <<disk, conf, completed_stages, ctl, data, hist, kept>>

\* Lines 291-299: answer_results.json is written, the stage is marked.
AnswerSave ==
    /\ Step(<<>>)
    /\ pc = "answer_save"
    /\ files' = [files EXCEPT ![AnswerFile] = AnswerDicts(answer_results)]
    /\ written' = written \cup {AnswerFile}
    /\ results' = [results EXCEPT !.answer_results = answer_results]
    /\ completed_stages' = completed_stages \cup {"answer"}
    /\ pc' = "answer_ckpt"
    /\ UNCHANGED <<ckpt, conf, ctl, search_results_data, answer_results_data,
                   search_results, answer_results, eval_result, outcome, hist, runs>>

\* Line 304: search_results_data if search_results_data else [... for sr in search_results]
SearchArg ==
    IF Truthy(search_results_data) THEN search_results_data
    ELSE SearchDicts(search_results)

\* Lines 300-306: the checkpoint is rewritten.
AnswerCkpt ==
    /\ Step(<<"gate:answer">>)
    /\ pc = "answer_ckpt"
    /\ ckpt' = IF use_checkpoint
               THEN save_checkpoint(completed_stages, SearchArg,
                                    AnswerDicts(answer_results), None)
               ELSE ckpt
    /\ pc' = "evaluate_gate"
    /\ UNCHANGED <<files, written, conf, completed_stages, ctl, data, outcome, hist,
                   runs>>

\* Lines 307-317: Answer is completed; its results come from the checkpoint
\* payload, else from the file, else they stay unassigned.
AnswerReload ==
    /\ Step(<<"gate:answer">>)
    /\ pc = "answer_gate"
    /\ ~AnswerShouldRun
    /\ "answer" \in completed_stages
    /\ IF Truthy(answer_results_data)
       THEN /\ answer_results' = AnswerObjs(answer_results_data)
            /\ results' = [results EXCEPT !.answer_results = answer_results']
       ELSE IF files[AnswerFile] # Missing
       THEN /\ answer_results' = AnswerObjs(files[AnswerFile])
            /\ results' = [results EXCEPT !.answer_results = answer_results']
       ELSE UNCHANGED <<answer_results, results>>
    /\ pc' = "evaluate_gate"
    /\ UNCHANGED <<disk, conf, completed_stages, ctl, search_results_data,
                   answer_results_data, search_results, eval_result, outcome, hist,
                   runs>>

\* Lines 318-324: Answer is not to run and Evaluate needs its results.
AnswerLoadNeeded ==
    /\ Step(<<"gate:answer">>)
    /\ pc = "answer_gate"
    /\ ~AnswerShouldRun
    /\ "answer" \notin completed_stages
    /\ "evaluate" \in stages
    /\ files[AnswerFile] # Missing
    /\ answer_results' = AnswerObjs(files[AnswerFile])
    /\ results' = [results EXCEPT !.answer_results = answer_results']
    /\ pc' = "evaluate_gate"
    /\ UNCHANGED <<disk, conf, completed_stages, ctl, search_results_data,
                   answer_results_data, search_results, eval_result, outcome, hist,
                   runs>>

\* A plausible slip: without the file, Evaluate is handed no answers.
AnswerMissing_Silent ==
    /\ Step(<<"gate:answer">>)
    /\ pc = "answer_gate"
    /\ ~AnswerShouldRun
    /\ "answer" \notin completed_stages
    /\ "evaluate" \in stages
    /\ files[AnswerFile] = Missing
    /\ answer_results' = List(<<>>)
    /\ pc' = "evaluate_gate"
    /\ UNCHANGED <<disk, conf, completed_stages, ctl, search_results_data,
                   answer_results_data, results, search_results, eval_result, outcome,
                   hist, runs>>

\* Lines 325-326: ... and there is no file.
AnswerMissing ==
    /\ Step(<<>>)
    /\ pc = "answer_gate"
    /\ ~AnswerShouldRun
    /\ "answer" \notin completed_stages
    /\ "evaluate" \in stages
    /\ files[AnswerFile] = Missing
    /\ Raise("FileNotFoundError:answer")
    /\ UNCHANGED <<disk, conf, completed_stages, ctl, data, hist, kept>>

\* Lines 327-329: nobody needs answer results.
AnswerNotNeeded ==
    /\ Step(<<"gate:answer">>)
    /\ pc = "answer_gate"
    /\ ~AnswerShouldRun
    /\ "answer" \notin completed_stages
    /\ "evaluate" \notin stages
    /\ answer_results' = None
    /\ pc' = "evaluate_gate"
    /\ UNCHANGED <<disk, conf, completed_stages, ctl, search_results_data,
                   answer_results_data, results, search_results, eval_result, outcome,
                   hist, runs>>

\* ---------------------------------------------------------------- Stage 4: Evaluate
\* Line 332.
EvaluateShouldRun == "evaluate" \in stages /\ "evaluate" \notin completed_stages

\* Lines 332-338: the Evaluate executor is called with answer_results.
EvaluateCall ==
    /\ Step(<<"call:evaluate">>)
    /\ pc = "evaluate_gate"
    /\ EvaluateShouldRun
    /\ answer_results # Unbound
    /\ invoked' = [invoked EXCEPT !["evaluate"] = @ + 1]
    /\ snap' = [completed_stages |-> completed_stages, ckpt |-> ckpt]
    /\ pc' = "evaluate_exec"
    /\ UNCHANGED <<disk, conf, completed_stages, ctl, data, outcome, exec_returned,
                   completed_at_load, ckpt_loaded, wait_state, answer_input, runs>>

\* Line 335 reads answer_results, which no branch of the Answer gate assigned.
EvaluateCallUnbound ==
    /\ Step(<<>>)
    /\ pc = "evaluate_gate"
    /\ EvaluateShouldRun
    /\ answer_results = Unbound
    /\ Raise("UnboundLocalError:evaluate")
    /\ UNCHANGED <<disk, conf, completed_stages, ctl, data, hist, kept>>

\* run_evaluate_stage returns.
EvaluateReturn ==
    /\ Step(<<>>)
    /\ pc = "evaluate_exec"
    /\ eval_result' = run_evaluate_stage(answer_results)
    /\ exec_returned' = exec_returned \cup {"evaluate"}
    /\ pc' = "evaluate_save"
    /\ UNCHANGED <<disk, conf, completed_stages, ctl, search_results_data,
                   answer_results_data, results, search_results, answer_results,
                   outcome, invoked, completed_at_load, ckpt_loaded, wait_state,
                   answer_input, snap, runs>>

\* run_evaluate_stage raises.
EvaluateRaise ==
    /\ Step(<<>>)
    /\ pc = "evaluate_exec"
    /\ Raise("StageError:evaluate")
    /\ UNCHANGED <<disk, conf, completed_stages, ctl, data, hist, kept>>

\* Lines 340-347: eval_results.json is written, the stage is marked.
EvaluateSave ==
    /\ Step(<<>>)
    /\ pc = "evaluate_save"
    /\ files' = [files EXCEPT ![EvalFile] = One(_eval_result_to_dict(eval_result.v[1]))]
    /\ written' = written \cup {EvalFile}
    /\ results' = [results EXCEPT !.eval_result = eval_result]
    /\ completed_stages' = completed_stages \cup {"evaluate"}
    /\ pc' = "evaluate_ckpt"
    /\ UNCHANGED <<ckpt, conf, ctl, search_results_data, answer_results_data,
                   search_results, answer_results, eval_result, outcome, hist, runs>>

\* Line 352: answer_results_data if answer_results_data else [... for ar in answer_results]
AnswerArg ==
    IF Truthy(answer_results_data) THEN answer_results_data
    ELSE AnswerDicts(answer_results)

\* Line 351 can be evaluated: the payload is there, or search_results is a list.
SearchArgOk == Truthy(search_results_data) \/ search_results.k = "list"

\* Lines 348-354: the checkpoint is rewritten.
EvaluateCkpt ==
    /\ Step(<<"gate:evaluate">>)
    /\ pc = "evaluate_ckpt"
    /\ ~use_checkpoint \/ SearchArgOk
    /\ ckpt' = IF use_checkpoint
               THEN save_checkpoint(completed_stages, SearchArg, AnswerArg,
                                    One(_eval_result_to_dict(eval_result.v[1])))
               ELSE ckpt
    /\ pc' = "report"
    /\ UNCHANGED <<files, written, conf, completed_stages, ctl, data, outcome, hist,
                   runs>>

\* Line 351 iterates over search_results, which is None.
EvaluateCkptNone ==
    /\ Step(<<>>)
    /\ pc = "evaluate_ckpt"
    /\ use_checkpoint
    /\ ~SearchArgOk
    /\ search_results = None
    /\ Raise("TypeError:checkpoint")
    /\ UNCHANGED <<disk, conf, completed_stages, ctl, data, hist, kept>>

\* Line 351 reads search_results, which no branch of the Search gate assigned.
EvaluateCkptUnbound ==
    /\ Step(<<>>)
    /\ pc = "evaluate_ckpt"
    /\ use_checkpoint
    /\ ~SearchArgOk
    /\ search_results = Unbound
    /\ Raise("UnboundLocalError:checkpoint")
    /\ UNCHANGED <<disk, conf, completed_stages, ctl, data, hist, kept>>

\* A plausible slip: a completed Evaluate hands its saved result to the report.
EvaluateSkipCompleted_Reload ==
    /\ Step(<<"gate:evaluate">>)
    /\ pc = "evaluate_gate"
    /\ ~EvaluateShouldRun
    /\ "evaluate" \in completed_stages
    /\ results' = IF files[EvalFile] # Missing
                  THEN [results EXCEPT !.eval_result = files[EvalFile]]
                  ELSE results
    /\ pc' = "report"
    /\ UNCHANGED <<disk, conf, completed_stages, ctl, search_results_data,
                   answer_results_data, search_results, answer_results, eval_result,
                   outcome, hist, runs>>

\* Lines 355-356: Evaluate is completed.
EvaluateSkipCompleted ==
    /\ Step(<<"gate:evaluate">>)
    /\ pc = "evaluate_gate"
    /\ ~EvaluateShouldRun
    /\ "evaluate" \in completed_stages
    /\ pc' = "report"
    /\ UNCHANGED <<disk, conf, completed_stages, ctl, data, outcome, hist, runs>>

\* Evaluate is not requested: neither branch of lines 332-356 is taken.
EvaluateSkipNotRequested ==
    /\ Step(<<"gate:evaluate">>)
    /\ pc = "evaluate_gate"
    /\ ~EvaluateShouldRun
    /\ "evaluate" \notin completed_stages
    /\ pc' = "report"
    /\ UNCHANGED <<disk, conf, completed_stages, ctl, data, outcome, hist, runs>>

\* ---------------------------------------------------------------- report
Line(label, value) == [label |-> label, value |-> value]

\* A plausible slip: the total of the report is not taken from the evaluation.
_generate_report_details(res) ==
    List(<<Line("System", 0), Line("Time Elapsed", 0)>>
         \o (IF res.eval_result # NoKey
             THEN <<Line("Total Questions", 0),
                    Line("Correct", res.eval_result.v[1].correct),
                    Line("Accuracy", res.eval_result.v[1].accuracy)>>
             ELSE <<>>))

\* _generate_report: the lines of report.txt.
_generate_report(res) ==
    List(<<Line("System", 0), Line("Time Elapsed", 0)>>
         \o (IF res.eval_result # NoKey
             THEN <<Line("Total Questions", res.eval_result.v[1].total_questions),
                    Line("Correct", res.eval_result.v[1].correct),
                    Line("Accuracy", res.eval_result.v[1].accuracy)>>
             ELSE <<>>))

\* Lines 358-362 with the report left out: run() returns results at once.
Report_Skipped ==
    /\ Step(<<>>)
    /\ pc = "report"
    /\ pc' = "returned"
    /\ outcome' = "ok"
    /\ last' = Left(TRUE)
    /\ UNCHANGED <<disk, conf, completed_stages, ctl, search_results_data,
                   answer_results_data, results, search_results, answer_results,
                   eval_result, hist, prev, report>>

\* Lines 358-362: the report is written and run() returns results.
Report ==
    /\ Step(<<"report">>)
    /\ pc = "report"
    /\ report' = _generate_report(results)
    /\ pc' = "returned"
    /\ outcome' = "ok"
    /\ last' = Left(TRUE)
    /\ UNCHANGED <<disk, conf, completed_stages, ctl, search_results_data,
                   answer_results_data, results, search_results, answer_results,
                   eval_result, hist, prev>>

\* ---------------------------------------------------------------- specification
\* The steps of run() from the checkpoint load to the return that a directory
\* with every written artifact in place allows.
Steps ==
    \/ Load
    \/ AddCall \/ AddReturn \/ AddRaise \/ AddSkipCompleted \/ AddSkipNotRequested
    \/ WaitConfig \/ WaitSkip \/ WaitGate \/ Sleep \/ WaitDone
    \/ SearchCall \/ SearchReturn \/ SearchRaise \/ SearchSave \/ SearchCkpt
    \/ SearchReload \/ SearchLoadNeeded \/ SearchMissing \/ SearchNotNeeded
    \/ AnswerCall \/ AnswerReturn \/ AnswerRaise \/ AnswerSave
    \/ AnswerCkpt \/ AnswerReload \/ AnswerLoadNeeded \/ AnswerMissing \/ AnswerNotNeeded
    \/ EvaluateCall \/ EvaluateReturn \/ EvaluateRaise
    \/ EvaluateSave \/ EvaluateCkpt \/ EvaluateCkptNone
    \/ EvaluateSkipCompleted \/ EvaluateSkipNotRequested
    \/ Report

\* The steps that read a local no branch has assigned: they need a stage that
\* is marked completed while its artifact is gone from the directory.
Gates ==
    \/ Steps
    \/ AnswerCallUnbound \/ EvaluateCallUnbound \/ EvaluateCkptUnbound

\* run(dataset, stages) without smoke test on a Pipeline without category
\* filter, any list of stages, in a directory where processes get killed and
\* artifacts removed.
Next ==
    \/ NewPipeline(NoFilter)
    \/ Kill
    \/ RemoveArtifact
    \/ StartRun(StageArgs)
    \/ SmokeOff \/ CategoryFilterOff
    \/ Gates

Spec == Init /\ [][Next]_vars

\* run(dataset, stages, smoke_test, ...) with and without smoke test on
\* Pipelines with and without category filter, in the staged use of a run name:
\* one process, nothing removed from the directory, one run fewer than in Spec.
StartStagedRun ==
    /\ ops + 1 < MaxOps
    /\ StartRun(StagedArgs)

PreNext ==
    \/ NewPipeline(FilterChoices)
    \/ StartStagedRun
    \/ SmokeTest \/ SmokeOff \/ CategoryFilter \/ CategoryFilterOff
    \/ Steps

PreSpec == Init /\ [][PreNext]_vars

\* The same use of run() on a dataset that has no conversations (and so, by
\* the invariant of a Dataset, no QAPairs).
NoConversations ==
    Dataset(<<"ds">>, <<>>, <<>>,
            [smoke_test |-> FALSE, smoke_messages |-> 0, smoke_questions |-> 0])

BareInit ==
    /\ EmptyWith({NoConversations})
    /\ arg = NoArg
    /\ ret = NoArg

BareSpec == BareInit /\ [][PreNext]_vars

\* ---------------------------------------------------------------- the helpers alone
\* Largest number of QAPairs handed to a helper called on its own.
MaxPureQA == 3

NoMeta == [smoke_test |-> FALSE, smoke_messages |-> 0, smoke_questions |-> 0]
Messages(n) == [j \in 1..n |-> j]
ConvIds == {"c1", "c2"}
\* Conversation lists: none, one conversation, or two with different ids.
ConvLists ==
    {<<>>}
    \cup {<<Conversation(a, Messages(n))>> : a \in ConvIds, n \in 0..MaxMsg}
    \cup {<<Conversation(p[1], Messages(n)), Conversation(p[2], Messages(MaxMsg))>> :
            p \in {q \in ConvIds \X ConvIds : q[1] # q[2]}, n \in 0..MaxMsg}
\* QAPair lists of one category whose QAPairs belong to either conversation.
OwnedQAs ==
    UNION {{[j \in 1..n |-> QAPair(j, PyStr(1), f[j])] : f \in [1..n -> ConvIds]} :
             n \in 0..MaxPureQA}
\* Calls of _apply_smoke_test(dataset, num_messages, num_questions).
SmokeArgs ==
    {[op |-> "smoke", dataset |-> Dataset(<<"ds">>, cs, qas, NoMeta),
      num_messages |-> m, num_questions |-> q] :
        cs \in ConvLists, qas \in OwnedQAs, m \in 0..(MaxMsg + 1), q \in 0..MaxPureQA}

\* Category tags, each given as a str or as an int.
Tags == {PyStr(1), PyStr(5), PyInt(1), PyInt(5)}
TaggedQAs ==
    UNION {{[j \in 1..n |-> QAPair(j, f[j], "c1")] : f \in [1..n -> Tags]} :
             n \in 0..MaxPureQA}
FilterLists == UNION {[1..n -> Tags] : n \in 1..2}
\* QAPairs of the categories 1, 2, 5, 5, 3, all given as int or all as str.
Example(t) ==
    [j \in 1..5 |-> QAPair(j, IF t = "int" THEN PyInt(<<1, 2, 5, 5, 3>>[j])
                                ELSE PyStr(<<1, 2, 5, 5, 3>>[j]), "c1")]
\* The category filter of lines 123-133 on dataset.qa_pairs with
\* self.filter_categories.
FilterArgs ==
    {[op |-> "filter", qa_pairs |-> qas, filter_categories |-> fc] :
        qas \in TaggedQAs \cup {Example("int"), Example("str")}, fc \in FilterLists}

\* Lists of up to two SearchResults, for _dict_to_search_result applied to
\* _search_result_to_dict.
SearchResults ==
    {SearchResult(q, c, r, m) :
        q \in 1..2, c \in ConvIds, r \in {<<>>, <<1>>, <<2, 1>>}, m \in 0..1}
SearchTripArgs ==
    {[op |-> "search_trip", results |-> List(l)] :
        l \in {<<>>} \cup {<<sr>> : sr \in SearchResults}
               \cup {<<SearchResult(1, "c1", <<1>>, 0), sr>> : sr \in SearchResults}}
\* The same for AnswerResults.
AnswerResults ==
    {AnswerResult(q, q, a, g, cat, c, ctx, m) :
        q \in 1..2, a \in 0..1, g \in 0..1, cat \in {PyStr(1), PyInt(1)},
        c \in ConvIds, ctx \in 0..1, m \in 0..1}
AnswerTripArgs ==
    {[op |-> "answer_trip", results |-> List(l)] :
        l \in {<<>>} \cup {<<ar>> : ar \in AnswerResults}
               \cup {<<AnswerResult(1, 1, 0, 0, PyStr(1), "c1", 0, 0), ar>> :
                        ar \in AnswerResults}}

\* ---------------------------------------------------------------- speaker names
\* A str is the sequence of its characters.
user == <<"u", "s", "e", "r">>
assistant == <<"a", "s", "s", "i", "s", "t", "a", "n", "t">>
User == <<"U", "s", "e", "r">>
Assistant == <<"A", "s", "s", "i", "s", "t", "a", "n", "t">>
user_123 == user \o <<"_", "1", "2", "3">>
assistant_456 == assistant \o <<"_", "4", "5", "6">>
Caroline == <<"C", "a", "r", "o", "l", "i", "n", "e">>
Manu == <<"M", "a", "n", "u">>

\* Speaker names as a dataset's metadata carries them: the standard roles in
\* several spellings, custom names, the empty name, a name shorter than a
\* role name, and names that hold a role name without starting with it.
Names ==
    {user, assistant, User, Assistant, user_123, assistant_456, Caroline, Manu,
     <<>>, <<"U", "S", "E", "R">>, <<"u", "s", "e">>, <<"m", "y">> \o user,
     <<"a", "n", " ">> \o Assistant}

\* str.lower() on the letters that occur in Names.
Lowered ==
    [c \in {"A", "C", "E", "M", "R", "S", "U"} |->
        CASE c = "A" -> "a" [] c = "C" -> "c" [] c = "E" -> "e" [] c = "M" -> "m"
          [] c = "R" -> "r" [] c = "S" -> "s" [] c = "U" -> "u"]

lower(s) == [i \in DOMAIN s |-> IF s[i] \in DOMAIN Lowered THEN Lowered[s[i]] ELSE s[i]]

\* str.startswith(prefix).
startswith(s, prefix) ==
    /\ Len(prefix) <= Len(s)
    /\ SubSeq(s, 1, Len(prefix)) = prefix

\* is_standard_role with the exact match alone.
is_standard_role_exact(speaker) ==
    lower(speaker) \in {user, assistant}

\* Lines 163-170.
is_standard_role(speaker) ==
    LET s == lower(speaker)
    IN IF s \in {user, assistant}
       THEN TRUE
       ELSE IF startswith(s, user) \/ startswith(s, assistant)
            THEN TRUE
            ELSE FALSE

\* Lines 151-173.
_need_dual_perspective(speaker_a, speaker_b) ==
    ~(is_standard_role(speaker_a) /\ is_standard_role(speaker_b))

\* metadata without the key.
Absent == <<"absent">>
\* dict.get(key, default).
get(d, key, default) == IF d[key] = Absent THEN default ELSE d[key]

MemuConversation(id, md) == [conversation_id |-> id, metadata |-> md]

\* OnlineAPIAdapter._extract_user_id(conv, speaker): the user id of a speaker
\* of a conversation, a function of the conversation and the speaker.
_extract_user_id(conv, speaker) ==
    [conversation_id |-> conv.conversation_id, speaker |-> speaker,
     name |-> conv.metadata[speaker]]

\* ---------------------------------------------------------------- Memu retrieval
\* What the retrieval request of a user id comes to: it fails (requests.post,
\* raise_for_status or response.json() raises e), or it answers a JSON object
\* with related_memories and, or not, total_found.
RequestFailed(e) == [ok |-> FALSE, error |-> e]
Related(items, has_total, total) ==
    [ok |-> TRUE, related_memories |-> items, has_total_found |-> has_total,
     total_found |-> total]

\* An item of related_memories.
Memory(id, score) ==
    [memory |-> [memory_id |-> id, content |-> <<"content of", id>>,
                 category |-> "event", created_at |-> "2024-01-02T00:00:00",
                 happened_at |-> "2024-01-01T00:00:00"],
     similarity_score |-> score]

\* An exception that leaves a function.
Raised(e) == [cls |-> "raised", error |-> e]

\* Lines 598-618: one line of a formatted context: the index, the content and
\* the date and category parts.
MemoryText(idx, result) ==
    [idx |-> idx, content |-> result.content,
     date |-> result.metadata.happened_at, category |-> result.metadata.category]

\* Lines 576-620: _build_memu_context(search_results).
_build_memu_context(memories) ==
    IF memories = <<>>
    THEN <<>>
    ELSE [idx \in 1..Len(Take(memories, 10)) |->
             MemoryText(idx, memories[idx])]

\* Lines 503-574: _build_dual_perspective_context: the arguments the default
\* template is formatted with.
_build_dual_perspective_context(speaker_a, speaker_b, results_a, results_b) ==
    LET texts(rs) ==
            IF rs # <<>>
            THEN [idx \in 1..Len(Take(rs, 5)) |-> MemoryText(idx, rs[idx])]
            ELSE <<"(No memories found)">>
    IN [speaker_1 |-> speaker_a, speaker_1_memories |-> texts(results_a),
        speaker_2 |-> speaker_b, speaker_2_memories |-> texts(results_b)]

\* Lines 417-435: the items of related_memories in standard format.
Converted(related_memories, user_id) ==
    [j \in 1..Len(related_memories) |->
        [content |-> related_memories[j].memory.content,
         score |-> related_memories[j].similarity_score,
         user_id |-> user_id,
         metadata |-> [id |-> related_memories[j].memory.memory_id,
                       category |-> related_memories[j].memory.category,
                       created_at |-> related_memories[j].memory.created_at,
                       happened_at |-> related_memories[j].memory.happened_at]]]

\* _search_single_perspective without the try block: the error of the
\* request leaves the function.
_search_single_perspective_uncaught(query, conversation_id, user_id, top_k, min_similarity, response) ==
    IF ~response.ok
    THEN Raised(response.error)
    ELSE LET memories == Converted(response.related_memories, user_id)
         IN SearchResult(query, conversation_id, memories,
                [system |-> "memu", user_ids |-> <<user_id>>, top_k |-> top_k,
                 min_similarity |-> min_similarity,
                 total_found |-> IF response.has_total_found
                                 THEN response.total_found
                                 ELSE Len(memories),
                 formatted_context |-> _build_memu_context(memories)])

\* Lines 382-453.
_search_single_perspective(query, conversation_id, user_id, top_k, min_similarity, response) ==
    IF ~response.ok
    THEN SearchResult(query, conversation_id, <<>>,
             [error |-> response.error, user_ids |-> <<user_id>>])
    ELSE LET memories == Converted(response.related_memories, user_id)
         IN SearchResult(query, conversation_id, memories,
                [system |-> "memu", user_ids |-> <<user_id>>, top_k |-> top_k,
                 min_similarity |-> min_similarity,
                 total_found |-> IF response.has_total_found
                                 THEN response.total_found
                                 ELSE Len(memories),
                 formatted_context |-> _build_memu_context(memories)])

\* A sort that leaves the list in the order it has.
Unsorted(s) == s

\* list.sort(key=lambda x: x.get("score", 0), reverse=True): by falling score,
\* items of equal score in the order they had.
RECURSIVE SortedByScore(_)
SortedByScore(s) ==
    IF s = <<>>
    THEN <<>>
    ELSE LET x == Head(s)
             rest == SortedByScore(Tail(s))
             before == SelectSeq(rest, LAMBDA y : y.score > x.score)
             after == SelectSeq(rest, LAMBDA y : ~(y.score > x.score))
         IN before \o <<x>> \o after

\* Lines 455-501.
_search_dual_perspective(query, conversation_id, speaker_a, speaker_b, speaker_a_user_id, speaker_b_user_id, top_k, min_similarity, response_a, response_b) ==
    LET result_a == _search_single_perspective(query, conversation_id,
                        speaker_a_user_id, top_k, min_similarity, response_a)
        result_b == _search_single_perspective(query, conversation_id,
                        speaker_b_user_id, top_k, min_similarity, response_b)
    IN IF result_a.cls = "raised"
       THEN result_a
       ELSE IF result_b.cls = "raised"
       THEN result_b
       ELSE LET all_results ==
                    Take(SortedByScore(result_a.results \o result_b.results), top_k)
            IN SearchResult(query, conversation_id, all_results,
                   [system |-> "memu",
                    user_ids |-> <<speaker_a_user_id, speaker_b_user_id>>,
                    top_k |-> top_k, min_similarity |-> min_similarity,
                    total_found |-> Len(all_results),
                    formatted_context |->
                        _build_dual_perspective_context(speaker_a, speaker_b,
                            result_a.results, result_b.results),
                    dual_perspective |-> TRUE])

\* Lines 338-380: search(query, conversation_id, index, conversation=..., top_k=...),
\* given says whether the keyword argument conversation came with the call.
\* Without it the user ids are the f-strings of lines 361-362, written as
\* user ids of a name no metadata holds.
search(query, conversation_id, conversation, given, top_k, min_similarity, response_a, response_b) ==
    LET speaker_a == IF given THEN get(conversation.metadata, "speaker_a", <<>>)
                     ELSE <<"speaker_a">>
        speaker_b == IF given THEN get(conversation.metadata, "speaker_b", <<>>)
                     ELSE <<"speaker_b">>
        speaker_a_user_id ==
            IF given THEN _extract_user_id(conversation, "speaker_a")
            ELSE [conversation_id |-> conversation_id, speaker |-> "speaker_a",
                  name |-> <<"f-string">>]
        speaker_b_user_id ==
            IF given THEN _extract_user_id(conversation, "speaker_b")
            ELSE [conversation_id |-> conversation_id, speaker |-> "speaker_b",
                  name |-> <<"f-string">>]
        need_dual ==
            IF given THEN _need_dual_perspective(speaker_a, speaker_b) ELSE FALSE
    IN IF need_dual
       THEN _search_dual_perspective(query, conversation_id, speaker_a, speaker_b,
                speaker_a_user_id, speaker_b_user_id, top_k, min_similarity,
                response_a, response_b)
       ELSE _search_single_perspective(query, conversation_id, speaker_a_user_id,
                top_k, min_similarity, response_a)

\* Largest number of related_memories in an answer of the service.
MaxItems == 2
\* Largest top_k of a search.
MaxTopK == 3

\* Memories of the service: two of the same similarity, one of a lower.
ServiceItems == {Memory("m1", 2), Memory("m2", 1), Memory("m3", 2)}

\* What a retrieval request comes to, with at most n related_memories.
Responses(n) ==
    {RequestFailed("HTTPError")}
        \cup UNION {{Related(items, FALSE, 0), Related(items, TRUE, Len(items) + 1)} :
                       items \in UNION {[1..k -> ServiceItems] : k \in 0..n}}

\* search() of a conversation of two custom names and of one of the standard
\* roles, with and without the keyword argument.
SearchArgs ==
    {[op |-> "search", conversation |-> MemuConversation("c1", md), given |-> g,
      top_k |-> k, response_a |-> ra, response_b |-> rb] :
        md \in {[speaker_a |-> Caroline, speaker_b |-> Manu],
                 [speaker_a |-> User, speaker_b |-> Assistant]},
        g \in BOOLEAN, k \in 0..MaxTopK,
        ra \in Responses(MaxItems), rb \in Responses(MaxItems)}

DualArgs ==
    {[op |-> "dual", speaker_a |-> a, speaker_b |-> b] : a \in Names, b \in Names}

PureArgs ==
    SmokeArgs \cup FilterArgs \cup SearchTripArgs \cup AnswerTripArgs \cup DualArgs
        \cup SearchArgs

\* Everything but the argument and the result of the helper under test.
object == <<disk, conf, ctl, data, hist, runs, pc, completed_stages, outcome,
            filter_categories, conversations, aliased, events, rebuilt_with, loaded,
            memu>>

PureInit ==
    /\ Empty
    /\ arg \in PureArgs
    /\ ret = NoArg

\* Lines 364-429 called on their own.
ApplySmokeTest ==
    /\ arg.op = "smoke"
    /\ ret = NoArg
    /\ ret' = _apply_smoke_test(arg.dataset, arg.num_messages, arg.num_questions)
    /\ UNCHANGED <<object, arg>>

\* Lines 123-133 on their own.
ApplyCategoryFilter ==
    /\ arg.op = "filter"
    /\ ret = NoArg
    /\ ret' = [qa_pairs |-> FilterCategories(arg.qa_pairs, arg.filter_categories)]
    /\ UNCHANGED <<object, arg>>

\* Lines 241 and 259 (264, 270): the saved dictionaries are built from the
\* objects, and the objects rebuilt from those dictionaries.
SearchRoundTrip ==
    /\ arg.op = "search_trip"
    /\ ret = NoArg
    /\ ret' = [dicts |-> SearchDicts(arg.results),
               results |-> SearchObjs(SearchDicts(arg.results))]
    /\ UNCHANGED <<object, arg>>

\* Lines 292 and 311 (316, 322).
AnswerRoundTrip ==
    /\ arg.op = "answer_trip"
    /\ ret = NoArg
    /\ ret' = [dicts |-> AnswerDicts(arg.results),
               results |-> AnswerObjs(AnswerDicts(arg.results))]
    /\ UNCHANGED <<object, arg>>

\* memu_adapter.py lines 151-173 called on their own.
NeedDualPerspective ==
    /\ arg.op = "dual"
    /\ ret = NoArg
    /\ ret' = [need_dual_perspective |->
                  _need_dual_perspective(arg.speaker_a, arg.speaker_b)]
    /\ UNCHANGED <<object, arg>>

\* memu_adapter.py lines 338-380 called on their own, the two retrieval
\* requests coming to what the argument says.
SearchAlone ==
    /\ arg.op = "search"
    /\ ret = NoArg
    /\ ret' = [result |-> search("q", arg.conversation.conversation_id,
                                 arg.conversation, arg.given, arg.top_k, "0.3",
                                 arg.response_a, arg.response_b)]
    /\ UNCHANGED <<object, arg>>

PureNext ==
    \/ SearchAlone
    \/ NeedDualPerspective
    \/ ApplySmokeTest
    \/ ApplyCategoryFilter
    \/ SearchRoundTrip
    \/ AnswerRoundTrip

PureSpec == PureInit /\ [][PureNext]_vars

\* ---------------------------------------------------------------- Memu adapter
\* (evaluation/src/adapters/memu_adapter.py, class MemuAdapter.)  One adapter
\* object ingests a list of conversations with add() and is then asked to
\* search().  Time is counted in the seconds the adapter sleeps; the requests
\* themselves take none of it.

\* Largest max_retries of an adapter's config.
MaxRetries == 2
\* Largest task_timeout of an adapter's config, in seconds.
MaxTimeout == 2
\* Largest task_check_interval of an adapter's config, in seconds.
MaxInterval == 1


\* The metadata of the conversations: each speaker a standard role, a custom
\* name, or not named.
SpeakerMeta ==
    {[speaker_a |-> a, speaker_b |-> b] :
        a \in {Absent, User, Caroline}, b \in {Absent, Assistant, Manu}}


\* The lists of conversations handed to add(): none, one conversation with any
\* of the metadata, and two conversations between the standard roles.
MemuConvLists ==
    {<<>>}
        \cup {<<MemuConversation("c1", md)>> : md \in SpeakerMeta}
        \cup {<<MemuConversation("c1", [speaker_a |-> User, speaker_b |-> Assistant]),
                 MemuConversation("c2", [speaker_a |-> User, speaker_b |-> Assistant])>>}

\* What the status request of a task answers.
Succeeded == {"SUCCESS", "COMPLETED"}
Failed == {"FAILED", "FAILURE"}
Statuses == {"PENDING", "PROCESSING"} \cup Succeeded \cup Failed

\* Everything outside the adapter.
outside == <<disk, conf, ctl, data, hist, runs, pc, completed_stages, outcome,
             filter_categories, conversations, aliased, events, rebuilt_with, loaded,
             arg, ret>>

\* Lines 45-62: MemuAdapter(config).
NewMemuAdapter ==
    /\ m_pc = "noadapter"
    /\ \E r \in 0..MaxRetries, c \in 1..MaxInterval, t \in 0..MaxTimeout :
         m_self' = [max_retries |-> r, task_check_interval |-> c, task_timeout |-> t]
    /\ m_pc' = "idle"
    /\ UNCHANGED <<m_add, m_submit, m_wait, m_server, m_search>>
    /\ UNCHANGED outside

\* Lines 83-89: add(conversations) is called.
MemuAdd ==
    /\ m_pc = "idle"
    /\ \E convs \in MemuConvLists :
         m_add' = [NoAdd EXCEPT !.conversations = convs, !.i = 1]
    /\ m_pc' = "add_loop"
    /\ UNCHANGED <<m_self, m_submit, m_wait, m_server, m_search>>
    /\ UNCHANGED outside

\* _add_single_user(conv, user_id, ...) is entered: lines 213 and 224.
EnterAddSingleUser(user_id) == [NoSubmit EXCEPT !.user_id = user_id]

\* Lines 91-123 and 129-132: the next conversation of the loop, up to the
\* first call of _add_single_user; line 136 when the list is exhausted.
MemuAddConversation ==
    /\ m_pc = "add_loop"
    /\ IF m_add.i <= Len(m_add.conversations)
       THEN LET conv == m_add.conversations[m_add.i]
                speaker_a == get(conv.metadata, "speaker_a", User)
                speaker_b == get(conv.metadata, "speaker_b", Assistant)
                need_dual_perspective == _need_dual_perspective(speaker_a, speaker_b)
            IN /\ m_add' = [m_add EXCEPT
                              !.conversation_ids = Append(@, conv.conversation_id),
                              !.dual = Append(@, need_dual_perspective),
                              !.perspective = "speaker_a",
                              !.task_id_a = NoTask]
               /\ m_submit' = EnterAddSingleUser(_extract_user_id(conv, "speaker_a"))
               /\ m_pc' = "submit"
       ELSE /\ m_pc' = "add_wait"
            /\ UNCHANGED <<m_add, m_submit>>
    /\ UNCHANGED <<m_self, m_wait, m_server, m_search>>
    /\ UNCHANGED outside

\* Lines 225-235: an attempt of the loop whose request succeeds.  The
\* service creates the task under the user id of the payload.
Submit ==
    /\ m_pc = "submit"
    /\ m_submit.attempt < m_self.max_retries
    /\ m_server' = Append(m_server, [user_id |-> m_submit.user_id, status |-> "PENDING"])
    /\ m_submit' = [m_submit EXCEPT !.task_id = Len(m_server) + 1,
                                    !.tried = Append(@, "ok")]
    /\ m_pc' = "return"
    /\ UNCHANGED <<m_self, m_add, m_wait, m_search>>
    /\ UNCHANGED outside

\* Lines 237-250: an attempt whose request fails.
SubmitFail ==
    /\ m_pc = "submit"
    /\ m_submit.attempt < m_self.max_retries
    /\ IF m_submit.attempt < m_self.max_retries - 1
       THEN /\ m_submit' = [m_submit EXCEPT !.tried = Append(@, "error"),
                                           !.slept = Append(@, 2 ^ m_submit.attempt),
                                           !.attempt = @ + 1]
            /\ m_pc' = "submit"
       ELSE /\ m_submit' = [m_submit EXCEPT !.tried = Append(@, "error"),
                                           !.raised = m_submit.attempt]
            /\ m_pc' = "raised"
    /\ UNCHANGED <<m_self, m_add, m_wait, m_server, m_search>>
    /\ UNCHANGED outside

\* Lines 225 and 252: range(max_retries) is empty, the loop body never runs.
SubmitNone ==
    /\ m_pc = "submit"
    /\ m_submit.attempt >= m_self.max_retries
    /\ m_pc' = "return"
    /\ UNCHANGED <<m_self, m_add, m_submit, m_wait, m_server, m_search>>
    /\ UNCHANGED outside

\* if task_id: task_ids.append(task_id).
AppendTask(task_ids, task_id) ==
    IF task_id # NoTask THEN Append(task_ids, task_id) ELSE task_ids

\* Line 252 and lines 121-127, 133-134: _add_single_user returns to add().
SubmitReturn ==
    /\ m_pc = "return"
    /\ LET conv == m_add.conversations[m_add.i]
       IN IF m_add.dual[m_add.i] /\ m_add.perspective = "speaker_a"
          THEN /\ m_add' = [m_add EXCEPT !.task_id_a = m_submit.task_id,
                                         !.perspective = "speaker_b"]
               /\ m_submit' = EnterAddSingleUser(_extract_user_id(conv, "speaker_b"))
               /\ m_pc' = "submit"
          ELSE /\ m_add' = [m_add EXCEPT
                              !.task_ids =
                                  IF m_add.dual[m_add.i]
                                  THEN AppendTask(AppendTask(@, m_add.task_id_a),
                                                  m_submit.task_id)
                                  ELSE AppendTask(@, m_submit.task_id),
                              !.i = @ + 1]
               /\ m_pc' = "add_loop"
               /\ UNCHANGED m_submit
    /\ UNCHANGED <<m_self, m_wait, m_server, m_search>>
    /\ UNCHANGED outside

\* Lines 137-139 and 265-273: add() calls _wait_for_all_tasks(task_ids) when
\* the list is not empty.
WaitForAllTasks ==
    /\ m_pc = "add_wait"
    /\ IF m_add.task_ids # <<>>
       THEN /\ m_wait' = [NoWait EXCEPT
                            !.called = TRUE,
                            !.pending_tasks = {m_add.task_ids[j] : j \in DOMAIN m_add.task_ids}]
            /\ m_pc' = "wait_loop"
       ELSE /\ m_pc' = "add_return"
            /\ UNCHANGED m_wait
    /\ UNCHANGED <<m_self, m_add, m_submit, m_server, m_search>>
    /\ UNCHANGED outside

\* Lines 275-277: the loop condition holds, a round starts.
WaitRound ==
    /\ m_pc = "wait_loop"
    /\ m_wait.elapsed < m_self.task_timeout
    /\ m_wait' = [m_wait EXCEPT !.completed_in_round = {}, !.failed_in_round = {},
                                !.unchecked = {},
                                !.to_poll = m_wait.pending_tasks]
    /\ m_pc' = "poll"
    /\ UNCHANGED <<m_self, m_add, m_submit, m_server, m_search>>
    /\ UNCHANGED outside

\* Lines 275 and 331-336: the loop condition fails.
WaitTimeout ==
    /\ m_pc = "wait_loop"
    /\ ~(m_wait.elapsed < m_self.task_timeout)
    /\ m_wait' = [m_wait EXCEPT !.returned = TRUE, !.ret = FALSE]
    /\ m_pc' = "add_return"
    /\ UNCHANGED <<m_self, m_add, m_submit, m_server, m_search>>
    /\ UNCHANGED outside

\* Lines 279-296: the status of one pending task is asked for and answered.
PollTask(task_id, status) ==
    /\ m_pc = "poll"
    /\ task_id \in m_wait.to_poll
    /\ m_server' = [m_server EXCEPT ![task_id].status = status]
    /\ m_wait' = [m_wait EXCEPT
                    !.to_poll = @ \ {task_id},
                    !.completed_in_round =
                        IF status \in {"SUCCESS", "COMPLETED"} THEN @ \cup {task_id} ELSE @,
                    !.failed_in_round =
                        IF status \in {"SUCCESS", "COMPLETED"} THEN @
                        ELSE IF status \in {"FAILED", "FAILURE"} THEN @ \cup {task_id}
                        ELSE @]
    /\ UNCHANGED <<m_self, m_pc, m_add, m_submit, m_search>>
    /\ UNCHANGED outside

\* Lines 280-283 and 298-302: the status request fails.
PollError(task_id) ==
    /\ m_pc = "poll"
    /\ task_id \in m_wait.to_poll
    /\ m_wait' = [m_wait EXCEPT !.to_poll = @ \ {task_id},
                                !.unchecked = @ \cup {task_id}]
    /\ UNCHANGED <<m_self, m_pc, m_add, m_submit, m_server, m_search>>
    /\ UNCHANGED outside

Poll ==
    \E task_id \in m_wait.to_poll :
        \/ \E status \in Statuses : PollTask(task_id, status)
        \/ PollError(task_id)

\* The end of a round that takes the completed tasks alone out of
\* pending_tasks.
RoundEnd_KeepFailed ==
    /\ m_pc = "poll"
    /\ m_wait.to_poll = {}
    /\ LET pending_tasks == m_wait.pending_tasks \ m_wait.completed_in_round
       IN IF pending_tasks = {}
          THEN /\ m_wait' = [m_wait EXCEPT !.pending_tasks = pending_tasks,
                                           !.returned = TRUE,
                                           !.ret = (m_wait.failed_in_round = {})]
               /\ m_pc' = "add_return"
          ELSE /\ m_wait' = [m_wait EXCEPT
                               !.pending_tasks = pending_tasks,
                               !.elapsed = @ + m_self.task_check_interval]
               /\ m_pc' = "wait_loop"
    /\ UNCHANGED <<m_self, m_add, m_submit, m_server, m_search>>
    /\ UNCHANGED outside

\* Lines 304-329: after the last task of the round.
RoundEnd ==
    /\ m_pc = "poll"
    /\ m_wait.to_poll = {}
    /\ LET pending_tasks ==
               m_wait.pending_tasks \ (m_wait.completed_in_round \cup m_wait.failed_in_round)
       IN IF pending_tasks = {}
          THEN /\ m_wait' = [m_wait EXCEPT !.pending_tasks = pending_tasks,
                                           !.returned = TRUE,
                                           !.ret = (m_wait.failed_in_round = {})]
               /\ m_pc' = "add_return"
          ELSE /\ m_wait' = [m_wait EXCEPT
                               !.pending_tasks = pending_tasks,
                               !.elapsed = @ + m_self.task_check_interval]
               /\ m_pc' = "wait_loop"
    /\ UNCHANGED <<m_self, m_add, m_submit, m_server, m_search>>
    /\ UNCHANGED outside

\* Lines 141-149: add() returns its metadata.
MemuAddReturn ==
    /\ m_pc = "add_return"
    /\ m_pc' = "added"
    /\ UNCHANGED <<m_self, m_add, m_submit, m_wait, m_server, m_search>>
    /\ UNCHANGED outside

\* What a retrieval request of the adapter comes to: a failure, or one memory.
MemuResponses ==
    {RequestFailed("HTTPError"), Related(<<Memory("m1", 2)>>, FALSE, 0)}

\* Lines 351-380: search(query, conversation_id, index, conversation=...) for
\* a conversation that was added, with and without the keyword argument.
MemuSearch ==
    /\ m_pc \in {"added", "searched"}
    /\ \E j \in DOMAIN m_add.conversations, given \in BOOLEAN,
          response_a \in MemuResponses, response_b \in MemuResponses :
         LET conversation == m_add.conversations[j]
             found == search("q", conversation.conversation_id, conversation, given,
                             10, "0.3", response_a, response_b)
         IN m_search' =
                [called |-> TRUE, j |-> j, given |-> given,
                 need_dual |-> Len(found.retrieval_metadata.user_ids) = 2,
                 user_ids |-> found.retrieval_metadata.user_ids,
                 ret |-> found]
    /\ m_pc' = "searched"
    /\ UNCHANGED <<m_self, m_add, m_submit, m_wait, m_server>>
    /\ UNCHANGED outside

MemuNext ==
    \/ NewMemuAdapter
    \/ MemuAdd
    \/ MemuAddConversation
    \/ Submit
    \/ SubmitFail
    \/ SubmitNone
    \/ SubmitReturn
    \/ WaitForAllTasks
    \/ WaitRound
    \/ WaitTimeout
    \/ Poll
    \/ RoundEnd
    \/ MemuAddReturn
    \/ MemuSearch

MemuSpec == BareInit /\ [][MemuNext]_vars

\* The steps of _wait_for_all_tasks.
WaitStep == WaitRound \/ WaitTimeout \/ Poll \/ RoundEnd

\* The adapter's process keeps running: a call of _wait_for_all_tasks that can
\* take a step takes one, every request is answered or fails, every sleep ends.
MemuLive == BareInit /\ [][MemuNext]_vars /\ WF_vars(WaitStep)

\* ---------------------------------------------------------------- where a run is
InRun == ~Idle
Ended == pc \in {"returned", "raised"}
\* The checkpoint load of the current (or the last finished) call is done.
AfterLoad == (InRun /\ pc \notin {"smoke", "filter", "load"}) \/ Ended

ExecStages == {"search", "answer", "evaluate"}
ArtifactOf(S) ==
    CASE S = "search" -> SearchFile
      [] S = "answer" -> AnswerFile
      [] S = "evaluate" -> EvalFile
StageError(S) ==
    CASE S = "search" -> "StageError:search"
      [] S = "answer" -> "StageError:answer"
      [] S = "evaluate" -> "StageError:evaluate"

EvaluatePcs == {"evaluate_gate", "evaluate_exec", "evaluate_save", "evaluate_ckpt"}
AnswerPcs == {"answer_gate", "answer_exec", "answer_save", "answer_ckpt"}
SearchPcs == {"search_gate", "search_exec", "search_save", "search_ckpt"}
\* The gate of stage S has decided and the call has not failed.
PastGate(S) ==
    CASE S = "search" ->
           pc \in (SearchPcs \ {"search_gate"}) \cup AnswerPcs \cup EvaluatePcs
                  \cup {"report", "returned"}
      [] S = "answer" ->
           pc \in (AnswerPcs \ {"answer_gate"}) \cup EvaluatePcs \cup {"report", "returned"}
      [] S = "evaluate" ->
           pc \in (EvaluatePcs \ {"evaluate_gate"}) \cup {"report", "returned"}

\* ---------------------------------------------------------------- C1
\* C1: in every run the executor of search, answer or evaluate is called at most
\* once, and only if the stage is requested and was not in completed_stages
\* after the checkpoint load; once the run is past the stage's gate the
\* executor has been called exactly when both hold.
C1_GateDecidesExecution ==
    AfterLoad =>
        \A S \in ExecStages :
            /\ invoked[S] <= 1
            /\ invoked[S] = 1 => (S \in stages /\ S \notin completed_at_load)
            /\ PastGate(S) =>
                 (invoked[S] = 1 <=> (S \in stages /\ S \notin completed_at_load))

\* A resumed run: search is requested but completed and is not called again,
\* answer is requested, not completed, and is called.
C1_Witness ==
    /\ pc = "returned"
    /\ {"search", "answer"} \subseteq stages
    /\ "evaluate" \notin stages
    /\ "search" \in completed_at_load
    /\ "answer" \notin completed_at_load
    /\ invoked["search"] = 0
    /\ invoked["answer"] = 1

C3_ReturnedStageIsCheckpointed ==
    (use_checkpoint /\ Ended) =>
        \A S \in exec_returned \cap ExecStages :
            /\ files[ArtifactOf(S)] # Missing
            /\ S \in completed_stages
            /\ ckpt.exists
            /\ S \in ckpt.completed_stages

\* ---------------------------------------------------------------- C4
\* C4: a checkpoint rewrite of the orchestrator (after Search, Answer or
\* Evaluate) never produces a checkpoint without search_results,
\* answer_results or eval_results that the checkpoint before it held.
C4_RewriteKeepsPayload ==
    [][(pc \in {"search_ckpt", "answer_ckpt", "evaluate_ckpt"} /\ ckpt' # ckpt) =>
         /\ ckpt.search_results # NoKey => ckpt'.search_results # NoKey
         /\ ckpt.answer_results # NoKey => ckpt'.answer_results # NoKey
         /\ ckpt.eval_results # NoKey => ckpt'.eval_results # NoKey]_vars

\* ---------------------------------------------------------------- C5
\* C5: whatever point the process is killed at, every stage among search,
\* answer, evaluate that the saved checkpoint names as completed has had its
\* artifact written to the output directory.
C5_CheckpointNamesWrittenStages ==
    \A S \in ExecStages :
        (ckpt.exists /\ S \in ckpt.completed_stages) => ArtifactOf(S) \in written

\* Killed between writing answer_results.json and rewriting the checkpoint:
\* the checkpoint still names search only.
C5_Witness ==
    /\ pc = "noobj"
    /\ ckpt.exists
    /\ ckpt.completed_stages = {"search"}
    /\ AnswerFile \in written
    /\ ops = 1

\* ---------------------------------------------------------------- C6
\* Answer is requested, Search is neither requested nor completed, and there
\* is no search_results.json.
MissingSearch ==
    /\ "answer" \in stages
    /\ "search" \notin stages
    /\ "search" \notin completed_at_load
    /\ files[SearchFile] = Missing

\* Evaluate is requested, Answer is neither requested nor completed, and there
\* is no answer_results.json.
MissingAnswer ==
    /\ "evaluate" \in stages
    /\ "answer" \notin stages
    /\ "answer" \notin completed_at_load
    /\ files[AnswerFile] = Missing

\* C6: such a run never gets past the gate of the missing stage: the executor
\* that needs the output is not called, no EvaluationResult is produced, the
\* run does not return, and the error it ends with is the missing-prerequisite
\* error naming the missing stage (unless an executor before that gate failed).
C6_MissingPrerequisite ==
    AfterLoad =>
        /\ MissingSearch =>
             /\ invoked["answer"] = 0
             /\ invoked["evaluate"] = 0
             /\ results.eval_result = NoKey
             /\ ~PastGate("search")
             /\ pc = "raised" => outcome \in {"FileNotFoundError:search", "StageError:add"}
        /\ MissingAnswer =>
             /\ invoked["evaluate"] = 0
             /\ results.eval_result = NoKey
             /\ ~PastGate("answer")
             /\ pc = "raised" =>
                  outcome \in {"FileNotFoundError:answer", "StageError:add",
                               "StageError:search"}

\* Only evaluate is requested, checkpointing is off, nothing is persisted.
C6_Witness ==
    /\ pc = "raised"
    /\ ~use_checkpoint
    /\ stages = {"evaluate"}
    /\ MissingAnswer
    /\ outcome = "FileNotFoundError:answer"
    /\ invoked["evaluate"] = 0

\* ---------------------------------------------------------------- C7
\* Search is completed, but the checkpoint holds no search_results and there
\* is no search_results.json, and Answer is to run.
LostSearch ==
    /\ "search" \in completed_at_load
    /\ search_results_data = None
    /\ files[SearchFile] = Missing
    /\ "answer" \in stages
    /\ "answer" \notin completed_at_load

\* Answer is completed, but the checkpoint holds no answer_results and there
\* is no answer_results.json, and Evaluate is to run.
LostAnswer ==
    /\ "answer" \in completed_at_load
    /\ answer_results_data = None
    /\ files[AnswerFile] = Missing
    /\ "evaluate" \in stages
    /\ "evaluate" \notin completed_at_load

\* C7: a run in which the output of a completed stage is lost and needed ends
\* with the missing-prerequisite error naming that stage (or with the failure
\* of an executor that ran before).
C7_LostOutputIsMissingPrerequisite ==
    /\ (pc = "raised" /\ LostSearch) =>
          outcome \in {"FileNotFoundError:search", "StageError:add"}
    /\ (pc = "raised" /\ LostAnswer /\ ~LostSearch) =>
          outcome \in {"FileNotFoundError:answer", "FileNotFoundError:search",
                       "StageError:add", "StageError:search"}

\* ---------------------------------------------------------------- C8
\* C8: when the executor of search, answer or evaluate raises, run() ends with
\* that error and completed_stages and the checkpoint are what they were when
\* the executor was called; the stage is in neither, so a re-run meets it again.
C8_FailedStageLeavesCheckpoint ==
    \A S \in ExecStages :
        (pc = "raised" /\ outcome = StageError(S)) =>
            /\ completed_stages = snap.completed_stages
            /\ ckpt = snap.ckpt
            /\ S \notin completed_stages
            /\ use_checkpoint => S \notin ckpt.completed_stages

\* Search was executed and checkpointed, then the Answer executor raised.
C8_Witness ==
    /\ pc = "raised"
    /\ outcome = "StageError:answer"
    /\ use_checkpoint
    /\ "search" \in exec_returned
    /\ ckpt.exists
    /\ ckpt.completed_stages = {"search"}
    /\ completed_stages = {"search"}

\* ---------------------------------------------------------------- C9
\* C9: a run that loaded no checkpoint (checkpointing off, or no checkpoint
\* there) and returned has called the executor of every requested stage among
\* search, answer, evaluate.
C9_NoCheckpointRunsEveryStage ==
    (pc = "returned" /\ ~ckpt_loaded) =>
        \A S \in stages \cap ExecStages : invoked[S] = 1

\* ---------------------------------------------------------------- C10
WaitPcs == {"waiting"} \cup SearchPcs \cup AnswerPcs \cup EvaluatePcs \cup {"report", "returned"}
\* The run has come to line 200 and decided about the wait.
AfterWaitGate == pc \in WaitPcs \/ (pc = "raised" /\ outcome # "StageError:add")
\* Add was executed in this run, the configured wait is positive, Search is requested.
WaitDue == "add" \in exec_returned /\ wait_seconds > 0 /\ "search" \in stages

\* C10: the post-add wait takes place exactly in the runs in which Add was
\* executed, post_add_wait_seconds > 0 and search is requested; it is over
\* before the Search gate is reached and the Search executor is called.
C10_PostAddWait ==
    AfterLoad =>
        /\ wait_state # "none" => WaitDue
        /\ (AfterWaitGate /\ WaitDue) => wait_state # "none"
        /\ (AfterWaitGate /\ pc # "waiting") => wait_state \in {"none", "finished"}
        /\ invoked["search"] >= 1 => wait_state \in {"none", "finished"}

C10_Witness ==
    /\ pc = "search_exec"
    /\ wait_state = "finished"
    /\ WaitDue
    /\ wait_i = 0
    /\ invoked["search"] = 1

\* ---------------------------------------------------------------- C11
\* The stages in the order of run(), and the marks the steps leave in events.
StageSeq == <<"add", "search", "answer", "evaluate">>
CallMark(S) ==
    CASE S = "add" -> "call:add"
      [] S = "search" -> "call:search"
      [] S = "answer" -> "call:answer"
      [] S = "evaluate" -> "call:evaluate"
GateMark(S) ==
    CASE S = "add" -> "gate:add"
      [] S = "search" -> "gate:search"
      [] S = "answer" -> "gate:answer"
      [] S = "evaluate" -> "gate:evaluate"
Marks(s) == {s[i] : i \in 1..Len(s)}
\* The positions of mark m in events.
At(m) == {i \in 1..Len(events) : events[i] = m}

\* C11: in every run, whatever stages are requested, the gate of a stage
\* finishes at most once, only after the gate of every earlier stage of add,
\* search, answer, evaluate has finished, and the executor of a stage is called
\* only after the gate of every earlier stage has finished and before its own
\* gate finishes.
C11_StagesInFixedOrder ==
    \A k \in 1..Len(StageSeq) :
        /\ Cardinality(At(GateMark(StageSeq[k]))) <= 1
        /\ \A i \in At(GateMark(StageSeq[k])) \cup At(CallMark(StageSeq[k])) :
             \A e \in 1..(k - 1) : \E j \in 1..(i - 1) : events[j] = GateMark(StageSeq[e])
        /\ \A i \in At(CallMark(StageSeq[k])) :
             \A j \in At(GateMark(StageSeq[k])) : i < j

\* A returned run that called the Evaluate executor after Add was skipped,
\* Search left out and Answer reloaded.
C11_Witness ==
    /\ pc = "returned"
    /\ "call:evaluate" \in Marks(events)
    /\ invoked["add"] = 0 /\ invoked["search"] = 0 /\ invoked["answer"] = 0
    /\ {"gate:add", "gate:search", "gate:answer", "gate:evaluate"} \subseteq Marks(events)

\* ---------------------------------------------------------------- C12
\* C12: after a run with smoke test and/or a category filter the dataset object
\* of the caller has the conversations, the messages and the qa_pairs it had
\* before the call.
C12_CallerDatasetUnchanged ==
    Ended /\ ({"smoke", "filter"} \cap Marks(events) # {}) =>
        /\ dataset.conversations = loaded.conversations
        /\ dataset.qa_pairs = loaded.qa_pairs

\* ---------------------------------------------------------------- C13
Min(a, b) == IF a < b THEN a ELSE b
\* The positions of the QAPairs of dataset ds that belong to conversation id.
OwnedBy(ds, id) ==
    {k \in 1..Len(ds.qa_pairs) : ds.qa_pairs[k].metadata.conversation_id = id}
\* The i-th smallest element of the set of positions P.
Nth(P, i) == CHOOSE k \in P : Cardinality({x \in P : x <= k}) = i

\* C13: _apply_smoke_test on a dataset with at least one conversation returns a
\* dataset with exactly one conversation, the first of the input, holding its
\* first min(num_messages, len) messages in order (all of them for 0), and the
\* first num_questions QAPairs of that conversation in order (all for 0).
C13_SmokeTestTruncation ==
    (arg.op = "smoke" /\ ret # NoArg /\ arg.dataset.conversations # <<>>) =>
        LET ds == arg.dataset
            first == ds.conversations[1]
            out == ret.ret
            own == OwnedBy(ds, first.conversation_id)
            nm == IF arg.num_messages = 0 THEN Len(first.messages)
                  ELSE Min(arg.num_messages, Len(first.messages))
            nq == IF arg.num_questions = 0 THEN Cardinality(own)
                  ELSE Min(arg.num_questions, Cardinality(own))
        IN /\ Len(out.conversations) = 1
           /\ out.conversations[1].conversation_id = first.conversation_id
           /\ Len(out.conversations[1].messages) = nm
           /\ \A i \in 1..nm : out.conversations[1].messages[i] = first.messages[i]
           /\ Len(out.qa_pairs) = nq
           /\ \A i \in 1..nq : out.qa_pairs[i] = ds.qa_pairs[Nth(own, i)]

\* A call on two conversations that cuts the messages of the first and leaves
\* out a QAPair of the second that stands before one of the first.
C13_Witness ==
    /\ arg.op = "smoke" /\ ret # NoArg
    /\ Len(arg.dataset.conversations) = 2
    /\ arg.num_messages = 1 /\ arg.num_questions = 1
    /\ Len(arg.dataset.conversations[1].messages) = MaxMsg
    /\ Len(arg.dataset.qa_pairs) >= 3
    /\ arg.dataset.qa_pairs[1].metadata.conversation_id
         # arg.dataset.conversations[1].conversation_id
    /\ Len(ret.ret.qa_pairs) = 1
    /\ Len(ret.ret.conversations[1].messages) = 1

\* ---------------------------------------------------------------- C14
\* Category tag c is named by the filter list fc, as an int or as a str.
Filtered(c, fc) == \E j \in 1..Len(fc) : fc[j].n = c.n

\* C14: the category filter leaves exactly the QAPairs whose category is not
\* named by the filter, in their order, whether the filter and the categories
\* of the QAPairs are given as integers or as strings.
C14_FilterRemovesCategories ==
    (arg.op = "filter" /\ ret # NoArg) =>
        ret.qa_pairs =
            SelectSeq(arg.qa_pairs,
                      LAMBDA qa : ~Filtered(qa.category, arg.filter_categories))

\* ---------------------------------------------------------------- C15
\* C15: a run writes report.txt exactly when it reaches its end without an
\* error: not while it is under way, not when it ends with an exception, and a
\* run that returns, whatever stages were requested, has written the report as
\* its last step, after the gates of all four stages.
C15_ReportIffNoError ==
    /\ InRun => report = Missing
    /\ pc = "raised" => report = Missing /\ outcome \in Errors
    /\ pc = "returned" =>
         /\ report = _generate_report(results)
         /\ outcome = "ok"
         /\ events # <<>> /\ events[Len(events)] = "report"
         /\ Cardinality(At("report")) = 1
         /\ \A k \in 1..Len(StageSeq) :
              \E i \in At(GateMark(StageSeq[k])) : i < Len(events)

\* A run of only add and search that returned with a report.
C15_Witness ==
    /\ pc = "returned"
    /\ stages = {"add", "search"}
    /\ invoked["search"] = 1
    /\ report # Missing

\* ---------------------------------------------------------------- C16
\* The current call is the first run() of its Pipeline object, asks for all
\* four stages and uses no checkpoint.
FreshFullRun ==
    /\ ~use_checkpoint
    /\ stages = Stages
    /\ completed_at_load = {}
    /\ AfterLoad

\* C16: a fresh run of all stages without checkpointing fails only when a
\* stage executor fails; when it returns, each of the four executors was called
\* exactly once, in the order add, search, answer, evaluate, the three result
\* files hold what the stages returned, results has search_results,
\* answer_results and eval_result, and the report has the line
\* "Total Questions: n" with n the total_questions of the evaluation.
C16_FreshFullRun ==
    /\ FreshFullRun /\ pc = "raised" =>
         outcome \in {"StageError:add", "StageError:search", "StageError:answer",
                      "StageError:evaluate"}
    /\ FreshFullRun /\ pc = "returned" =>
         /\ \A S \in Stages : invoked[S] = 1
         /\ \A k \in 1..Len(StageSeq) : Cardinality(At(CallMark(StageSeq[k]))) = 1
         /\ \A k \in 1..(Len(StageSeq) - 1) :
              \A i \in At(CallMark(StageSeq[k])) :
                \A j \in At(CallMark(StageSeq[k + 1])) : i < j
         /\ files[SearchFile] = SearchDicts(search_results)
         /\ files[AnswerFile] = AnswerDicts(answer_results)
         /\ files[EvalFile] = One(_eval_result_to_dict(eval_result.v[1]))
         /\ results.search_results = search_results /\ search_results.k = "list"
         /\ results.answer_results = answer_results /\ answer_results.k = "list"
         /\ results.eval_result = eval_result /\ eval_result.k = "one"
         /\ Len(search_results.v) = Len(qa_pairs)
         /\ Len(answer_results.v) = Len(qa_pairs)
         /\ eval_result.v[1].total_questions = Len(qa_pairs)
         /\ \E i \in 1..Len(report.v) :
              report.v[i] = Line("Total Questions", eval_result.v[1].total_questions)

\* Such a run on a dataset with MaxQA QAPairs has returned.
C16_Witness ==
    /\ FreshFullRun
    /\ pc = "returned"
    /\ Len(qa_pairs) = MaxQA
    /\ \E i \in 1..Len(report.v) : report.v[i] = Line("Total Questions", MaxQA)

\* ---------------------------------------------------------------- C17
SearchFields == {"query", "conversation_id", "results", "retrieval_metadata"}
AnswerFields ==
    {"question_id", "question", "answer", "golden_answer", "category",
     "conversation_id", "formatted_context", "metadata"}
\* Records a and b agree on each of the fields F.
SameFields(a, b, F) == \A f \in F : a[f] = b[f]

\* C17: a list of SearchResults (of AnswerResults) turned into dictionaries by
\* _search_result_to_dict (_answer_result_to_dict) and back by
\* _dict_to_search_result (_dict_to_answer_result) is the list it was, object
\* for object and field for field, and each dictionary holds every field.
C17_SerializationRoundTrip ==
    /\ (arg.op = "search_trip" /\ ret # NoArg) =>
         /\ ret.results = arg.results
         /\ Len(ret.results.v) = Len(arg.results.v)
         /\ \A i \in 1..Len(arg.results.v) :
              /\ SameFields(ret.results.v[i], arg.results.v[i], SearchFields)
              /\ DOMAIN ret.dicts.v[i] = SearchFields
              /\ SameFields(ret.dicts.v[i], arg.results.v[i], SearchFields)
    /\ (arg.op = "answer_trip" /\ ret # NoArg) =>
         /\ ret.results = arg.results
         /\ Len(ret.results.v) = Len(arg.results.v)
         /\ \A i \in 1..Len(arg.results.v) :
              /\ SameFields(ret.results.v[i], arg.results.v[i], AnswerFields)
              /\ DOMAIN ret.dicts.v[i] = AnswerFields
              /\ SameFields(ret.dicts.v[i], arg.results.v[i], AnswerFields)

\* Two AnswerResults that differ in their formatted context went there and back.
C17_Witness ==
    /\ arg.op = "answer_trip" /\ ret # NoArg
    /\ Len(arg.results.v) = 2
    /\ arg.results.v[2].formatted_context = 1
    /\ ret.results.v[2].formatted_context = 1
    /\ ret.results.v[1].formatted_context = 0

\* ---------------------------------------------------------------- C18
\* C18: past the Search (Answer) gate of a run that found the stage completed,
\* the executor was not called, and the results of the stage are the ones of
\* the loaded checkpoint payload whenever the checkpoint held them, and the
\* ones of the artifact when it did not and the artifact is there.
C18_ReloadPrefersCheckpoint ==
    /\ (pc = "answer_gate" /\ "search" \in completed_at_load) =>
         /\ invoked["search"] = 0
         /\ search_results_data # None =>
              search_results = SearchObjs(search_results_data)
         /\ (search_results_data = None /\ files[SearchFile] # Missing) =>
              search_results = SearchObjs(files[SearchFile])
    /\ (pc = "evaluate_gate" /\ "answer" \in completed_at_load) =>
         /\ invoked["answer"] = 0
         /\ answer_results_data # None =>
              answer_results = AnswerObjs(answer_results_data)
         /\ (answer_results_data = None /\ files[AnswerFile] # Missing) =>
              answer_results = AnswerObjs(files[AnswerFile])

\* ---------------------------------------------------------------- C19
\* The Add gate of the current call is behind and run_add_stage was not called.
AddNotExecuted == "gate:add" \in Marks(events) /\ invoked["add"] = 0

\* C19: in a run that does not execute Add, build_lazy_index is called exactly
\* once, with the conversations of the run, before the Search gate decides and
\* before any executor is called, and results["index"] is set, also when the
\* rebuild returned None; whenever the Search executor is called, results has
\* an index entry.
C19_IndexRebuiltWhenAddSkipped ==
    /\ AddNotExecuted =>
         /\ Cardinality(At("rebuild")) = 1
         /\ rebuilt_with = List(conversations)
         /\ conversations = dataset.conversations
         /\ results.index \in Indexes
         /\ \A i \in At("rebuild") :
              \A j \in At("gate:search") \cup At("call:search") \cup At("call:answer")
                       \cup At("call:evaluate") : i < j
    /\ "call:search" \in Marks(events) => results.index \in Indexes

\* The Search executor is called in a run that found Add completed and whose
\* rebuild returned None.
C19_Witness ==
    /\ AddNotExecuted
    /\ "add" \in completed_at_load
    /\ pc = "search_exec"
    /\ results.index = "none"

\* ---------------------------------------------------------------- C20
\* The marks of the steps that come after the pre-processing.
LaterMarks ==
    {"load", "rebuild", "report"}
    \cup {CallMark(S) : S \in Stages} \cup {GateMark(S) : S \in Stages}

\* C20: in every run the smoke test, when it is applied, comes before the
\* category filter, and both come before the checkpoint load and before every
\* gate; a Pipeline with a category filter applies it in every run, also in
\* one that loaded a checkpoint and skips completed stages, so that past the
\* load the QAPairs of the run hold none of the filtered categories.
C20_PreprocessingFirst ==
    /\ Cardinality(At("smoke")) <= 1 /\ Cardinality(At("filter")) <= 1
    /\ \A i \in At("smoke") : \A j \in At("filter") : i < j
    /\ \A i \in At("smoke") \cup At("filter") :
         \A j \in 1..Len(events) : events[j] \in LaterMarks => i < j
    /\ (AfterLoad /\ filter_categories # <<>>) =>
         /\ Cardinality(At("filter")) = 1
         /\ \A j \in 1..Len(qa_pairs) :
              qa_pairs[j].category \notin FilterSet(filter_categories)

\* A run with smoke test and category filter that loaded a checkpoint naming
\* search as completed, and whose filter took a QAPair out.
C20_Witness ==
    /\ AfterLoad
    /\ ckpt_loaded /\ "search" \in completed_at_load
    /\ Len(events) >= 3
    /\ events[1] = "smoke" /\ events[2] = "filter" /\ events[3] = "load"
    /\ loaded.qa_pairs # <<>>
    /\ qa_pairs = <<>>

\* ---------------------------------------------------------------- C21
\* The labels of the lines of report r.
Labels(r) == {r.v[i].label : i \in 1..Len(r.v)}
Metrics == {"Total Questions", "Correct", "Accuracy"}

\* C21: in a run that returned, the report has the lines Total Questions,
\* Correct and Accuracy, and results has eval_result, exactly when the
\* Evaluate executor was called in this run; otherwise the report has only the
\* system name and the elapsed time, also when evaluate is completed and the
\* checkpoint holds eval_results.
C21_MetricsIffEvaluateRan ==
    pc = "returned" =>
        /\ invoked["evaluate"] = 1 =>
             /\ Metrics \subseteq Labels(report)
             /\ results.eval_result = eval_result /\ eval_result.k = "one"
        /\ invoked["evaluate"] = 0 =>
             /\ Labels(report) = {"System", "Time Elapsed"}
             /\ Len(report.v) = 2
             /\ results.eval_result = NoKey

\* A resumed run that asked for evaluate, found it completed in a checkpoint
\* holding eval_results, and returned.
C21_Witness ==
    /\ pc = "returned"
    /\ "evaluate" \in stages
    /\ ckpt_loaded /\ "evaluate" \in completed_at_load
    /\ ckpt.eval_results # NoKey
    /\ files[EvalFile] # Missing
    /\ invoked["evaluate"] = 0
    /\ Labels(report) = {"System", "Time Elapsed"}

\* ---------------------------------------------------------------- C22
\* C22: whenever the Answer executor is called, the search results handed to
\* it hold exactly one SearchResult per QAPair of the dataset of the run, in
\* the order of the QAPairs, also when they were reloaded from what an earlier
\* run saved.
C22_OneSearchResultPerQAPair ==
    (invoked["answer"] = 1 /\ answer_input # Unbound) =>
        /\ answer_input.k = "list"
        /\ Len(answer_input.v) = Len(qa_pairs)
        /\ \A j \in 1..Len(qa_pairs) : answer_input.v[j].query = qa_pairs[j].question

\* ---------------------------------------------------------------- C23
\* A step of the current call of run() that starts after the checkpoint load.
RunStep == InRun /\ AfterLoad /\ pc' # "noobj"

\* C23: in every step of a run after the checkpoint load, completed_stages
\* keeps every stage it holds and holds only names of the four stages, and a
\* checkpoint written by the step names every stage the checkpoint named before.
C23_CompletedStagesGrow ==
    [][RunStep =>
         /\ completed_stages \subseteq completed_stages'
         /\ completed_stages' \subseteq Stages
         /\ ckpt' # ckpt =>
              /\ ckpt'.completed_stages = completed_stages'
              /\ ckpt.completed_stages \subseteq ckpt'.completed_stages]_vars

\* A run that loaded a checkpoint naming add and search has written a
\* checkpoint that names answer as well.
C23_Witness ==
    /\ InRun /\ AfterLoad
    /\ ckpt_loaded /\ completed_at_load = {"add", "search"}
    /\ ckpt.completed_stages = {"add", "search", "answer"}
    /\ completed_stages = {"add", "search", "answer"}

\* ---------------------------------------------------------------- C24
\* C24: a run with smoke test on a dataset without conversations gets the
\* dataset back unchanged from _apply_smoke_test and goes on to the category
\* filter, the checkpoint load and the gates: it does not end in the
\* pre-processing.
C24_SmokeTestOnNoConversations ==
    (loaded.conversations = <<>> /\ "smoke" \in Marks(events)) =>
        /\ dataset = loaded
        /\ ~(pc = "raised" /\ "load" \notin Marks(events))

\* ---------------------------------------------------------------- C30
\* The names the claim lists as standard roles, and its custom name.
ListedRoles == {user, User, assistant, user_123, assistant_456}

\* C30: _need_dual_perspective(a, b) is False exactly when both names, in
\* lower case, start with "user" or "assistant" (so for every pair of the
\* listed role names), True as soon as one of them is the custom name
\* Caroline, and the same for (b, a).
C30_NeedDualPerspective ==
    (arg.op = "dual" /\ ret # NoArg) =>
        LET a == arg.speaker_a
            b == arg.speaker_b
            role(s) == startswith(lower(s), user) \/ startswith(lower(s), assistant)
        IN /\ ret.need_dual_perspective = FALSE <=> (role(a) /\ role(b))
           /\ (a \in ListedRoles /\ b \in ListedRoles) => ~ret.need_dual_perspective
           /\ (a = Caroline \/ b = Caroline) => ret.need_dual_perspective
           /\ ret.need_dual_perspective = _need_dual_perspective(b, a)

\* The call on a role name with a suffix and a role name in capitals has
\* returned False.
C30_Witness ==
    /\ arg.op = "dual"
    /\ arg.speaker_a = user_123
    /\ arg.speaker_b = Assistant
    /\ ret # NoArg
    /\ ~ret.need_dual_perspective


\* ---------------------------------------------------------------- C25
\* _wait_for_all_tasks has returned.
WaitReturned == m_wait.returned
\* The task ids handed to _wait_for_all_tasks.
TaskIds == {m_add.task_ids[j] : j \in DOMAIN m_add.task_ids}

\* C25: _wait_for_all_tasks returns True exactly when every task of task_ids
\* reported SUCCESS or COMPLETED before the timeout; it returns False when a
\* task reported FAILED or FAILURE in any round, and when a task is still
\* pending at the timeout.
C25_WaitTrueIffAllSucceeded ==
    WaitReturned =>
        /\ m_wait.ret = TRUE <=> \A t \in TaskIds : m_server[t].status \in Succeeded
        /\ (\E t \in TaskIds : m_server[t].status \in Failed) => m_wait.ret = FALSE
        /\ m_wait.pending_tasks # {} => m_wait.ret = FALSE

\* ---------------------------------------------------------------- C26
\* C26: when add() has returned normally, every memorize task it submitted
\* has reported SUCCESS or COMPLETED: none has failed, none is still pending.
C26_AddReturnsAfterCompletion ==
    m_pc \in {"added", "searched"} =>
        \A t \in DOMAIN m_server : m_server[t].status \in Succeeded

\* ---------------------------------------------------------------- C27
\* The seconds slept after n failed attempts that were not the last.
BackOff(n) == [j \in 1..n |-> 2 ^ (j - 1)]

\* C27: _add_single_user makes at most max_retries attempts; when it returns,
\* its last attempt succeeded, every earlier one failed and was followed by a
\* sleep of 2^attempt seconds, and it returns the task id of that attempt;
\* when it raises, max_retries attempts failed and it raises the last error.
C27_AddSingleUserRetries ==
    /\ Len(m_submit.tried) <= m_self.max_retries
    /\ m_pc = "return" =>
         LET n == Len(m_submit.tried)
         IN /\ n >= 1
            /\ m_submit.tried[n] = "ok"
            /\ \A j \in 1..(n - 1) : m_submit.tried[j] = "error"
            /\ m_submit.slept = BackOff(n - 1)
            /\ m_submit.task_id = Len(m_server)
            /\ m_server[m_submit.task_id].user_id = m_submit.user_id
    /\ m_pc = "raised" =>
         /\ Len(m_submit.tried) = m_self.max_retries
         /\ \A j \in DOMAIN m_submit.tried : m_submit.tried[j] = "error"
         /\ m_submit.slept = BackOff(m_self.max_retries - 1)
         /\ m_submit.raised = m_self.max_retries - 1

\* ---------------------------------------------------------------- C29
\* The user ids under which the service holds memories of a conversation.
StoredUnder(conversation_id) ==
    {m_server[t].user_id :
        t \in {u \in DOMAIN m_server : m_server[u].user_id.conversation_id = conversation_id}}

\* C29: search() of a conversation, given the conversation, searches in dual
\* perspective exactly when add() ingested the conversation in dual
\* perspective, and queries exactly the user ids add() stored its memories
\* under, whether or not the metadata names speaker_a and speaker_b.
C29_SearchAsAdded ==
    (m_search.called /\ m_search.given) =>
        /\ m_search.need_dual = m_add.dual[m_search.j]
        /\ {m_search.user_ids[k] : k \in DOMAIN m_search.user_ids}
               = StoredUnder(m_add.conversations[m_search.j].conversation_id)

\* ---------------------------------------------------------------- C28
\* _wait_for_all_tasks is running.
InWait == m_pc \in {"wait_loop", "poll"}
Terminal == Succeeded \cup Failed

\* C28: a call of _wait_for_all_tasks returns.  While it runs pending_tasks
\* never grows; a task whose status request answered a terminal status is
\* out of pending_tasks when the round ends and is not asked again; a task
\* whose status request failed stays pending; a round is only started while a
\* task is pending and the elapsed time is below task_timeout, and the call
\* returns at the first loop test with no task pending or the time used up.
C28_WaitTerminates ==
    /\ InWait ~> m_wait.returned
    /\ [][InWait =>
            /\ m_wait'.pending_tasks \subseteq m_wait.pending_tasks
            /\ \A t \in m_wait.to_poll \ m_wait'.to_poll :
                   m_server[t].status \notin Terminal
            /\ m_pc' # "poll" =>
                   /\ \A t \in m_wait.pending_tasks :
                          m_server[t].status \in Terminal => t \notin m_wait'.pending_tasks
                   /\ m_wait.unchecked \subseteq m_wait'.pending_tasks
            /\ m_pc' = "poll" =>
                   m_wait'.pending_tasks # {} /\ m_wait'.elapsed < m_self.task_timeout
            /\ m_wait'.returned <=>
                   \/ m_wait'.pending_tasks = {}
                   \/ m_pc = "wait_loop" /\ m_wait.elapsed >= m_self.task_timeout]_vars

\* The call has returned at the timeout after a round in which a task
\* reported a failure and left pending_tasks, and a round in which the status
\* request of the other task failed.
C28_Witness ==
    /\ m_wait.returned
    /\ m_wait.elapsed >= 2
    /\ m_wait.unchecked # {}
    /\ m_wait.pending_tasks = m_wait.unchecked
    /\ \E t \in TaskIds \ m_wait.pending_tasks : m_server[t].status \in Failed

\* ---------------------------------------------------------------- C31
\* search() on its own has returned from _search_dual_perspective.
DualSearched ==
    /\ arg.op = "search"
    /\ ret # NoArg
    /\ arg.given
    /\ _need_dual_perspective(arg.conversation.metadata.speaker_a,
                              arg.conversation.metadata.speaker_b)
\* The items a single-perspective search of a speaker returns.
ItemsOf(response, speaker) ==
    IF response.ok
    THEN Converted(response.related_memories, _extract_user_id(arg.conversation, speaker))
    ELSE <<>>
Count(x, s) == Cardinality({j \in DOMAIN s : s[j] = x})

\* C31: the result list of _search_dual_perspective holds only items of the
\* two single-perspective searches (none more often than they do), in order
\* of non-increasing score, min(top_k, number of items of both searches) of
\* them; total_found is the length of that list and user_ids names speaker
\* a's and speaker b's id.
C31_DualPerspectiveMerge ==
    DualSearched =>
        LET r == ret.result
            both == ItemsOf(arg.response_a, "speaker_a") \o ItemsOf(arg.response_b, "speaker_b")
        IN /\ \A j \in DOMAIN r.results :
                  /\ Count(r.results[j], both) >= 1
                  /\ Count(r.results[j], r.results) <= Count(r.results[j], both)
           /\ \A j \in 1..(Len(r.results) - 1) :
                  r.results[j].score >= r.results[j + 1].score
           /\ Len(r.results) = Min(arg.top_k, Len(both))
           /\ r.retrieval_metadata.total_found = Len(r.results)
           /\ r.retrieval_metadata.user_ids =
                  <<_extract_user_id(arg.conversation, "speaker_a"),
                    _extract_user_id(arg.conversation, "speaker_b")>>

\* Two items for each speaker, those of speaker a in rising score, and
\* top_k = 3: the list returned has three items, of both speakers.
C31_Witness ==
    /\ DualSearched
    /\ arg.top_k = 3
    /\ arg.response_a.ok /\ arg.response_b.ok
    /\ Len(arg.response_a.related_memories) = 2
    /\ Len(arg.response_b.related_memories) = 2
    /\ arg.response_a.related_memories[1].similarity_score
           < arg.response_a.related_memories[2].similarity_score
    /\ Len(ret.result.results) = 3
    /\ {ret.result.results[j].user_id.speaker : j \in 1..3} = {"speaker_a", "speaker_b"}

\* ---------------------------------------------------------------- C32
\* What is left of a speaker's items when top_k of them are kept.
KeptOf(items) == Min(arg.top_k, Len(items))

\* C32: whatever the retrieval requests come to, search() returns a
\* SearchResult of its query and conversation_id.  A single-perspective
\* search whose request failed returns no results and the error text in
\* retrieval_metadata; a dual-perspective search with one request failed
\* returns the other speaker's results, and with both failed returns none.
C32_RetrievalFailureReturns ==
    (arg.op = "search" /\ ret # NoArg) =>
        LET r == ret.result
            a == ItemsOf(arg.response_a, "speaker_a")
            b == ItemsOf(arg.response_b, "speaker_b")
        IN /\ r.cls = "SearchResult"
           /\ r.query = "q"
           /\ r.conversation_id = arg.conversation.conversation_id
           /\ (~DualSearched /\ ~arg.response_a.ok) =>
                  /\ r.results = <<>>
                  /\ r.retrieval_metadata.error = arg.response_a.error
           /\ (DualSearched /\ ~arg.response_a.ok) =>
                  /\ Len(r.results) = KeptOf(b)
                  /\ \A j \in DOMAIN r.results :
                         Count(r.results[j], r.results) <= Count(r.results[j], b)
           /\ (DualSearched /\ ~arg.response_b.ok) =>
                  /\ Len(r.results) = KeptOf(a)
                  /\ \A j \in DOMAIN r.results :
                         Count(r.results[j], r.results) <= Count(r.results[j], a)

\* The request of speaker a failed, that of speaker b answered two memories:
\* the dual-perspective search returned both.
C32_Witness ==
    /\ DualSearched
    /\ ~arg.response_a.ok
    /\ arg.response_b.ok
    /\ Len(arg.response_b.related_memories) = 2
    /\ arg.top_k = 3
    /\ ret.result.cls = "SearchResult"
    /\ Len(ret.result.results) = 2
    /\ \A j \in 1..2 : ret.result.results[j].user_id.speaker = "speaker_b"
====
